---- MODULE Spec2Model ----
(***************************************************************************)
(* FlowCraft: the workflow executor (src/lib/workflowExecutor.ts) and the  *)
(* rule-based workflow generator (src/unnamed/part_000), as state          *)
(* machines.                                                               *)
(*                                                                         *)
(* Optional values (a field that may be undefined) are sequences of length *)
(* at most one: <<>> is undefined, <<v>> is the value v.                   *)
(* Text is a sequence of strings: text taken from the user input is a      *)
(* sequence of one-character strings, a literal of the program is a        *)
(* one-element sequence holding the literal.                               *)
(***************************************************************************)
EXTENDS Integers, Sequences, FiniteSets, TLC

\* ------------------------------------------------------------------------
\* Bounds of the inputs
\* ------------------------------------------------------------------------

\* Longest workflow.steps handed to executeWorkflow.
MaxSteps == 2

\* Most words in an input handed to generateWorkflow.
MaxWords == 3

\* ------------------------------------------------------------------------
\* Types (src/unnamed/part_001)
\* ------------------------------------------------------------------------

Undefined == <<>>

Some(v) == <<v>>

StepTypes == {"action", "condition", "delay", "notification"}

LogStatuses == {"pending", "running", "completed", "failed"}

ExecutionStatuses == {"idle", "running", "completed", "failed"}

\* ------------------------------------------------------------------------
\* Strings (JavaScript String methods used by the generator)
\* ------------------------------------------------------------------------

\* A string is a sequence of UTF-16 code units, each written as a
\* one-character string; "U+0130" stands for the code unit U+0130 (capital I
\* with dot above) and "U+0307" for U+0307 (combining dot above).

UpperLetters ==
    <<"A", "B", "C", "D", "E", "F", "G", "H", "I", "J", "K", "L", "M",
      "N", "O", "P", "Q", "R", "S", "T", "U", "V", "W", "X", "Y", "Z">>

LowerLetters ==
    <<"a", "b", "c", "d", "e", "f", "g", "h", "i", "j", "k", "l", "m",
      "n", "o", "p", "q", "r", "s", "t", "u", "v", "w", "x", "y", "z">>

Digits == {"0", "1", "2", "3", "4", "5", "6", "7", "8", "9"}

\* White space of String.prototype.trim and of \s.
WhiteSpace == {" ", "\t"}

\* The lower-case mapping of one code unit: a letter A-Z maps to a-z, U+0130
\* maps to the two code units "i" U+0307 (Unicode SpecialCasing, which
\* toLowerCase applies), every other code unit of the model maps to itself.
LowerOf(c) ==
    IF \E k \in 1..26 : UpperLetters[k] = c
    THEN <<LowerLetters[CHOOSE k \in 1..26 : UpperLetters[k] = c]>>
    ELSE IF c = "U+0130" THEN <<"i", "U+0307">>
    ELSE <<c>>

\* String.prototype.toLowerCase
RECURSIVE ToLowerCase(_)
ToLowerCase(s) == IF s = <<>> THEN <<>> ELSE LowerOf(Head(s)) \o ToLowerCase(Tail(s))

\* String.prototype.trim
Trim(s) ==
    IF \A i \in 1..Len(s) : s[i] \in WhiteSpace
    THEN <<>>
    ELSE LET first == CHOOSE i \in 1..Len(s) :
                         /\ s[i] \notin WhiteSpace
                         /\ \A j \in 1..(i - 1) : s[j] \in WhiteSpace
             last  == CHOOSE i \in 1..Len(s) :
                         /\ s[i] \notin WhiteSpace
                         /\ \A j \in (i + 1)..Len(s) : s[j] \in WhiteSpace
         IN  SubSeq(s, first, last)

\* s.startsWith(sub, i - 1): sub occurs in s at position i (1-based).
OccursAt(s, sub, i) ==
    /\ i >= 1
    /\ i + Len(sub) - 1 <= Len(s)
    /\ \A k \in 1..Len(sub) : s[i + k - 1] = sub[k]

\* String.prototype.includes
Includes(s, sub) == \E i \in 1..(Len(s) + 1) : OccursAt(s, sub, i)

\* The end of the longest run of code units of set cs that starts at i
\* (i - 1 if s[i] is not in cs): how a greedy \d+ or \s* consumes.
RunEnd(s, i, cs) ==
    CHOOSE e \in (i - 1)..Len(s) :
        /\ \A k \in i..e : s[k] \in cs
        /\ e < Len(s) => s[e + 1] \notin cs

\* ------------------------------------------------------------------------
\* The generator (src/unnamed/part_000)
\* ------------------------------------------------------------------------

\* /(\d+)\s*(am|pm|hour|minute|day|week)/: the units, in alternation order.
TimeUnits == <<<<"a", "m">>, <<"p", "m">>, <<"h", "o", "u", "r">>, <<"m", "i", "n", "u", "t",
    "e">>, <<"d", "a", "y">>, <<"w", "e", "e", "k">>>>

\* The position after a match of the time pattern that starts at i, 0 if it
\* does not match there: a greedy run of digits, a greedy run of white
\* space, a unit.
TimeMatchEnd(s, i) ==
    IF i > Len(s) \/ s[i] \notin Digits
    THEN 0
    ELSE LET d == RunEnd(s, i, Digits)
             w == RunEnd(s, d + 1, WhiteSpace)
         IN  IF \E u \in 1..Len(TimeUnits) : OccursAt(s, TimeUnits[u], w + 1)
             THEN LET u == CHOOSE u \in 1..Len(TimeUnits) :
                              /\ OccursAt(s, TimeUnits[u], w + 1)
                              /\ \A v \in 1..(u - 1) : ~OccursAt(s, TimeUnits[v], w + 1)
                  IN  w + Len(TimeUnits[u]) + 1
             ELSE 0

\* input.match(/(\d+)\s*(am|pm|hour|minute|day|week)/): match[0] of the
\* leftmost match, Undefined if there is none.
TimeMatch(s) ==
    IF \E i \in 1..Len(s) : TimeMatchEnd(s, i) # 0
    THEN LET i == CHOOSE i \in 1..Len(s) :
                     /\ TimeMatchEnd(s, i) # 0
                     /\ \A j \in 1..(i - 1) : TimeMatchEnd(s, j) = 0
         IN  Some(SubSeq(s, i, TimeMatchEnd(s, i) - 1))
    ELSE Undefined

\* (\s+at|\s+every|$) matches at position q of s.
MessageTailAt(s, q) ==
    \/ q = Len(s) + 1
    \/ /\ q <= Len(s)
       /\ s[q] \in WhiteSpace
       /\ LET w == RunEnd(s, q, WhiteSpace)
          IN  OccursAt(s, <<"a", "t">>, w + 1) \/ OccursAt(s, <<"e", "v", "e", "r", "y">>, w + 1)

\* /to (.+?)(\s+at|\s+every|$)/i matches with "to " at position p: group 1
\* is lazy, at least one code unit long, and ends where the tail matches.
MessageMatchAt(s, p) ==
    /\ OccursAt(s, <<"t", "o", " ">>, p)
    /\ p + 3 <= Len(s)

\* extractReminderMessage
extractReminderMessage(s) ==
    IF \E p \in 1..Len(s) : MessageMatchAt(s, p)
    THEN LET p == CHOOSE p \in 1..Len(s) :
                     /\ MessageMatchAt(s, p)
                     /\ \A r \in 1..(p - 1) : ~MessageMatchAt(s, r)
             e == CHOOSE e \in (p + 3)..Len(s) :
                     /\ MessageTailAt(s, e + 1)
                     /\ \A f \in (p + 3)..(e - 1) : ~MessageTailAt(s, f + 1)
         IN  Trim(SubSeq(s, p + 3, e))
    ELSE <<"Complete your task">>

\* detectFramework
detectFramework(s) ==
    IF Includes(s, <<"r", "e", "a", "c", "t">>) THEN "React"
    ELSE IF Includes(s, <<"v", "u", "e">>) THEN "Vue"
    ELSE IF Includes(s, <<"a", "n", "g", "u", "l", "a", "r">>) THEN "Angular"
    ELSE IF Includes(s, <<"n", "e", "x", "t">>) THEN "Next.js"
    ELSE IF Includes(s, <<"s", "v", "e", "l", "t", "e">>) THEN "Svelte"
    ELSE "React"

\* detectPackages
detectPackages(s) ==
    LET packages ==
            (IF Includes(s, <<"t", "y", "p", "e", "s", "c", "r", "i", "p", "t">>) \/ Includes(s, <<"t", "s">>)
                THEN <<"typescript">> ELSE <<>>)
         \o (IF Includes(s, <<"e", "s", "l", "i", "n", "t">>) THEN <<"eslint">> ELSE <<>>)
         \o (IF Includes(s, <<"p", "r", "e", "t", "t", "i", "e", "r">>) THEN <<"prettier">> ELSE <<>>)
         \o (IF Includes(s, <<"t", "a", "i", "l", "w", "i", "n", "d">>) THEN <<"tailwindcss">> ELSE <<>>)
         \o (IF Includes(s, <<"j", "e", "s", "t">>) THEN <<"jest">> ELSE <<>>)
         \o (IF Includes(s, <<"v", "i", "t", "e", "s", "t">>) THEN <<"vitest">> ELSE <<>>)
    IN  IF Len(packages) > 0 THEN packages ELSE <<"standard-dependencies">>

\* detectChannel
detectChannel(s) ==
    IF Includes(s, <<"e", "m", "a", "i", "l">>) THEN "email"
    ELSE IF Includes(s, <<"s", "m", "s">>) \/ Includes(s, <<"t", "e", "x", "t">>) THEN "sms"
    ELSE IF Includes(s, <<"s", "l", "a", "c", "k">>) THEN "slack"
    ELSE IF Includes(s, <<"p", "u", "s", "h">>) THEN "push"
    ELSE "email"

\* extractActions: actionWords, in vocabulary order.
actionWords ==
    <<<<"c", "r", "e", "a", "t", "e">>, <<"s", "e", "n", "d">>, <<"c", "h", "e", "c", "k">>,
      <<"u", "p", "d", "a", "t", "e">>, <<"d", "e", "l", "e", "t", "e">>, <<"n", "o", "t",
          "i", "f", "y">>,
      <<"p", "r", "o", "c", "e", "s", "s">>, <<"v", "a", "l", "i", "d", "a", "t", "e">>,
      <<"t", "r", "a", "n", "s", "f", "o", "r", "m">>, <<"s", "a", "v", "e">>, <<"l", "o",
          "a", "d">>,
      <<"e", "x", "e", "c", "u", "t", "e">>>>

\* extractActions
extractActions(s) ==
    LET RECURSIVE found(_)
        found(k) ==
            IF k > Len(actionWords) THEN <<>>
            ELSE (IF Includes(s, actionWords[k]) THEN <<actionWords[k]>> ELSE <<>>)
                    \o found(k + 1)
    IN  IF Len(found(1)) > 0 THEN found(1) ELSE <<<<"p", "r", "o", "c", "e", "s", "s">>>>

\* capitalizeFirst: str.charAt(0).toUpperCase() + str.slice(1), on a word of
\* lower-case letters.
capitalizeFirst(str) ==
    IF str = <<>> THEN <<>>
    ELSE IF \E k \in 1..26 : LowerLetters[k] = str[1]
    THEN <<UpperLetters[CHOOSE k \in 1..26 : LowerLetters[k] = str[1]]>> \o Tail(str)
    ELSE str

\* generateId: `wf-${Date.now()}-${random}`
generateId(now, random) == <<"wf-", ToString(now), "-", random>>

\* A variant of StepId that gives every step the id of the first.
StepIdAlwaysFirst(n) == "step-1"

\* `step-${n}`
StepId(n) ==
    <<"step-1", "step-2", "step-3", "step-4", "step-5", "step-6",
      "step-7", "step-8", "step-9", "step-10", "step-11", "step-12">>[n]

\* A variant of createEmptyWorkflow that holds a placeholder step.
createEmptyWorkflowWithStep(userInput, now, random) ==
    [id |-> generateId(now, random),
     name |-> <<"New Workflow">>,
     description |-> <<>>,
     domain |-> "general",
     trigger |-> [type |-> "manual", description |-> <<"Run manually">>,
                  config |-> Undefined],
     steps |-> << [id |-> "step-1", type |-> "action", title |-> <<"Clarify">>,
                   description |-> userInput, reasoning |-> <<"Waiting">>,
                   config |-> <<>>, dependencies |-> Undefined] >>,
     metadata |-> [createdAt |-> now, userInput |-> userInput,
                   agentReasoning |-> <<"Waiting for more details from user">>]]

\* createEmptyWorkflow
createEmptyWorkflow(userInput, now, random) ==
    [id |-> generateId(now, random),
     name |-> <<"New Workflow">>,
     description |-> <<>>,
     domain |-> "general",
     trigger |-> [type |-> "manual", description |-> <<"Run manually">>,
                  config |-> Undefined],
     steps |-> <<>>,
     metadata |-> [createdAt |-> now, userInput |-> userInput,
                   agentReasoning |-> <<"Waiting for more details from user">>]]

\* generateReminderWorkflow
generateReminderWorkflow(userInput, input, now, random) ==
    LET timeMatch == TimeMatch(input)
        frequency == IF Includes(input, <<"e", "v", "e", "r", "y">>) THEN "recurring" ELSE "once"
        scheduleTime == IF timeMatch # Undefined THEN timeMatch[1] ELSE <<"9:00 AM">>
        steps ==
          << [id |-> "step-1",
              type |-> "condition",
              title |-> <<"Check Schedule Time">>,
              description |-> <<"Monitor for the scheduled time: ">>
                  \o (IF timeMatch # Undefined THEN timeMatch[1] ELSE <<"specified time">>),
              reasoning |-> <<"This step continuously checks if the current time matches the desired reminder schedule">>,
              config |-> [frequency |-> <<frequency>>,
                          time |-> IF timeMatch # Undefined THEN timeMatch[1] ELSE <<"9:00 AM">>,
                          timezone |-> <<"local">>],
              dependencies |-> Undefined],
             [id |-> "step-2",
              type |-> "notification",
              title |-> <<"Send Reminder">>,
              description |-> <<"Deliver the notification to the user">>,
              reasoning |-> <<"When the scheduled time arrives, this step sends the actual reminder notification">>,
              config |-> [message |-> extractReminderMessage(input),
                          channels |-> <<"push", "email">>],
              dependencies |-> Some(<<"step-1">>)],
             [id |-> "step-3",
              type |-> "action",
              title |-> <<"Log Event">>,
              description |-> <<"Record that the reminder was sent">>,
              reasoning |-> <<"Keeping a log helps track reminder history and debug issues">>,
              config |-> [action |-> <<"log">>, details |-> <<"Reminder sent successfully">>],
              dependencies |-> Some(<<"step-2">>)] >>
    IN  [id |-> generateId(now, random),
         name |-> <<"Reminder Workflow">>,
         description |-> <<IF frequency = "recurring" THEN "Recurring" ELSE "One-time",
                           " reminder notification">>,
         domain |-> "reminders",
         trigger |-> [type |-> "schedule",
                      description |-> <<IF frequency = "recurring" THEN "Every day" ELSE "Once",
                                        " at ">> \o scheduleTime,
                      config |-> Some([schedule |-> scheduleTime,
                                       cron |-> IF frequency = "recurring"
                                                THEN Some(<<"0 ">> \o scheduleTime)
                                                ELSE Undefined])],
         steps |-> steps,
         metadata |-> [createdAt |-> now, userInput |-> userInput,
                       agentReasoning |-> <<"I detected this is a reminder workflow with ",
                                            frequency, " execution. The workflow monitors for the scheduled time, sends a notification, and logs the event for tracking.">>]]

\* Line 159: the input asks for testing.
\* A variant of MentionsTesting that does not look for 'jest'.
MentionsTestingWithoutJest(input) ==
    Includes(input, <<"t", "e", "s", "t">>) \/ Includes(input, <<"v", "i", "t", "e", "s", "t">>)

MentionsTesting(input) ==
    Includes(input, <<"t", "e", "s", "t">>) \/ Includes(input, <<"j", "e", "s", "t">>) \/ Includes(input, <<"v", "i", "t", "e", "s", "t">>)

\* generateAppSetupWorkflow
generateAppSetupWorkflow(userInput, input, now, random) ==
    LET framework == detectFramework(input)
        initialize ==
             [id |-> "step-1",
              type |-> "action",
              title |-> <<"Initialize Project">>,
              description |-> <<"Create new ", framework, " project with configuration">>,
              reasoning |-> <<"Starting with project initialization ensures we have the correct directory structure and dependencies">>,
              config |-> [command |-> <<"create-", framework, "-app">>,
                          framework |-> <<framework>>],
              dependencies |-> Undefined]
        install ==
             [id |-> "step-2",
              type |-> "action",
              title |-> <<"Install Dependencies">>,
              description |-> <<"Install required packages and tools">>,
              reasoning |-> <<"Dependencies must be installed before we can configure or run the project">>,
              config |-> [packages |-> detectPackages(input)],
              dependencies |-> Some(<<"step-1">>)]
        testing ==
             [id |-> "step-3",
              type |-> "action",
              title |-> <<"Configure Testing">>,
              description |-> <<"Set up testing framework and sample tests">>,
              reasoning |-> <<"Testing infrastructure is essential for maintainable code">>,
              config |-> [testFramework |->
                             IF Includes(input, <<"v", "i", "t", "e", "s", "t">>) THEN <<"vitest">> ELSE <<"jest">>],
              dependencies |-> Some(<<"step-2">>)]
        devServer ==
             [id |-> "step-4",
              type |-> "action",
              title |-> <<"Start Development Server">>,
              description |-> <<"Launch the application in development mode">>,
              reasoning |-> <<"Starting the dev server allows immediate verification that setup was successful">>,
              config |-> [command |-> <<"npm run dev">>, port |-> 3000],
              dependencies |-> Some(<<"step-2">>)]
    IN  [id |-> generateId(now, random),
         name |-> <<framework, " Project Setup">>,
         description |-> <<"Initialize and configure a new ", framework, " project">>,
         domain |-> "app-setup",
         trigger |-> [type |-> "manual", description |-> <<"Run now">>, config |-> Undefined],
         steps |-> <<initialize, install>>
                      \o (IF MentionsTesting(input) THEN <<testing>> ELSE <<>>)
                      \o <<devServer>>,
         metadata |-> [createdAt |-> now, userInput |-> userInput,
                       agentReasoning |-> <<"This is a project setup workflow for ", framework,
                                            ". I've broken it down into logical steps: initialize, install dependencies, configure testing (if requested), and start the dev server. Each step depends on the previous one completing successfully.">>]]

\* generateNotificationWorkflow
generateNotificationWorkflow(userInput, input, now, random) ==
    LET eventType ==
            IF Includes(input, <<"w", "h", "e", "n">>) \/ Includes(input, <<"s", "i", "g", "n", "u", "p">>)
                  \/ Includes(input, <<"u", "s", "e", "r">>)
            THEN "event" ELSE "manual"
        steps ==
          << [id |-> "step-1",
              type |-> "condition",
              title |-> <<"Validate Recipient Info">>,
              description |-> <<"Check that required recipient information is available">>,
              reasoning |-> <<"We must validate inputs before attempting to send to prevent errors">>,
              config |-> [required |-> <<"recipient", "message">>],
              dependencies |-> Undefined],
             [id |-> "step-2",
              type |-> "action",
              title |-> <<"Prepare Message">>,
              description |-> <<"Format and prepare the notification content">>,
              reasoning |-> <<"Message preparation ensures consistent formatting and includes all necessary information">>,
              config |-> [template |-> <<"standard">>, includeTimestamp |-> TRUE],
              dependencies |-> Some(<<"step-1">>)],
             [id |-> "step-3",
              type |-> "notification",
              title |-> <<"Send Notification">>,
              description |-> <<"Send via ", detectChannel(input)>>,
              reasoning |-> <<"This is the main action that delivers the notification to the recipient">>,
              config |-> [channel |-> <<detectChannel(input)>>,
                          priority |-> IF Includes(input, <<"u", "r", "g", "e", "n", "t">>)
                                            \/ Includes(input, <<"i", "m", "p", "o", "r", "t", "a", "n", "t">>)
                                       THEN <<"high">> ELSE <<"normal">>],
              dependencies |-> Some(<<"step-2">>)],
             [id |-> "step-4",
              type |-> "action",
              title |-> <<"Confirm Delivery">>,
              description |-> <<"Verify the notification was delivered successfully">>,
              reasoning |-> <<"Delivery confirmation helps track success rate and catch any issues">>,
              config |-> [retryOnFailure |-> TRUE, maxRetries |-> 3],
              dependencies |-> Some(<<"step-3">>)] >>
    IN  [id |-> generateId(now, random),
         name |-> <<"Notification Workflow">>,
         description |-> <<"Send and track notification delivery">>,
         domain |-> "automation",
         trigger |-> [type |-> eventType,
                      description |-> IF eventType = "event"
                                      THEN <<"Event: New user signup">> ELSE <<"Run now">>,
                      config |-> IF eventType = "event"
                                 THEN Some([event |-> <<"user.signup">>]) ELSE Undefined],
         steps |-> steps,
         metadata |-> [createdAt |-> now, userInput |-> userInput,
                       agentReasoning |-> <<"This workflow handles notification delivery with proper validation, formatting, sending, and delivery confirmation. Each step ensures reliability and provides feedback.">>]]

\* A variant of generateGeneralWorkflow whose step ids come from generateId.
generateGeneralWorkflowFreshIds(userInput, input, now, random) ==
    LET actions == extractActions(input)
        steps ==
            [index \in 1..Len(actions) |->
                [id |-> generateId(now, random) \o <<"-", ToString(index)>>,
                 type |-> "action",
                 title |-> capitalizeFirst(actions[index]),
                 description |-> <<"Execute: ">> \o actions[index],
                 reasoning |-> <<"This step performs the action \"">> \o actions[index]
                                  \o <<"\" as specified in your workflow description">>,
                 config |-> [action |-> actions[index]],
                 dependencies |-> IF index > 1
                                  THEN Some(<<generateId(now, random)
                                                 \o <<"-", ToString(index - 1)>>>>)
                                  ELSE Undefined]]
    IN  [id |-> generateId(now, random),
         name |-> <<"Custom Workflow">>,
         description |-> userInput,
         domain |-> "general",
         trigger |-> [type |-> "manual", description |-> <<"Run now">>, config |-> Undefined],
         steps |-> steps,
         metadata |-> [createdAt |-> now, userInput |-> userInput,
                       agentReasoning |-> <<"I've created a ", ToString(Len(steps)),
                                            "-step workflow based on your description. Each step executes sequentially. You can modify or add steps as needed.">>]]

\* generateGeneralWorkflow
generateGeneralWorkflow(userInput, input, now, random) ==
    LET actions == extractActions(input)
        fromActions ==
            [index \in 1..Len(actions) |->
                [id |-> StepId(index),
                 type |-> "action",
                 title |-> capitalizeFirst(actions[index]),
                 description |-> <<"Execute: ">> \o actions[index],
                 reasoning |-> <<"This step performs the action \"">> \o actions[index]
                                  \o <<"\" as specified in your workflow description">>,
                 config |-> [action |-> actions[index]],
                 dependencies |-> IF index > 1 THEN Some(<<StepId(index - 1)>>)
                                  ELSE Undefined]]
        steps ==
            IF Len(fromActions) = 0
            THEN << [id |-> "step-1",
                     type |-> "action",
                     title |-> <<"Execute Workflow">>,
                     description |-> userInput,
                     reasoning |-> <<"This is a general-purpose workflow step based on your description">>,
                     config |-> <<>>,
                     dependencies |-> Undefined] >>
            ELSE fromActions
    IN  [id |-> generateId(now, random),
         name |-> <<"Custom Workflow">>,
         description |-> userInput,
         domain |-> "general",
         trigger |-> [type |-> "manual", description |-> <<"Run now">>, config |-> Undefined],
         steps |-> steps,
         metadata |-> [createdAt |-> now, userInput |-> userInput,
                       agentReasoning |-> <<"I've created a ", ToString(Len(steps)),
                                            "-step workflow based on your description. Each step executes sequentially. You can modify or add steps as needed.">>]]

\* Line 16: userInput.toLowerCase().trim()
Normalize(userInput) == Trim(ToLowerCase(userInput))

\* The minimum length of an input that is not too vague.
MinInputLength == 10

\* A variant of TooVague with && in the place of ||.
TooVagueBoth(input) == Len(input) < MinInputLength /\ ~Includes(input, <<" ">>)

\* Line 19: input.length < 10 || !input.includes(' ')
TooVague(input) == Len(input) < MinInputLength \/ ~Includes(input, <<" ">>)

\* A variant of IsReminder without the keyword "remind".
IsReminderWithoutRemind(input) ==
    Includes(input, <<"n", "o", "t", "i", "f", "i", "c", "a", "t", "i", "o", "n">>)
       \/ Includes(input, <<"a", "l", "e", "r", "t">>)

\* Line 28
IsReminder(input) ==
    Includes(input, <<"r", "e", "m", "i", "n", "d">>) \/ Includes(input, <<"n", "o", "t", "i",
        "f", "i", "c", "a", "t", "i", "o", "n">>)
       \/ Includes(input, <<"a", "l", "e", "r", "t">>)

\* Line 32
IsAppSetup(input) ==
    Includes(input, <<"s", "e", "t", "u", "p">>) \/ Includes(input, <<"c", "r", "e", "a", "t",
        "e", " ", "p", "r", "o", "j", "e", "c", "t">>)
       \/ Includes(input, <<"i", "n", "i", "t", "i", "a", "l", "i", "z", "e">>)

\* Line 36
IsNotification(input) ==
    Includes(input, <<"e", "m", "a", "i", "l">>) \/ Includes(input, <<"s", "e", "n", "d">>)
       \/ Includes(input, <<"n", "o", "t", "i", "f", "y">>)

\* A variant of TemplateFor that tests the email/send/notify family first.
TemplateForNotificationFirst(input) ==
    IF IsNotification(input) THEN "notification"
    ELSE IF IsReminder(input) THEN "reminder"
    ELSE IF IsAppSetup(input) THEN "app-setup"
    ELSE "general"

\* Lines 27-41: the first keyword family that matches selects the template.
TemplateFor(input) ==
    IF IsReminder(input) THEN "reminder"
    ELSE IF IsAppSetup(input) THEN "app-setup"
    ELSE IF IsNotification(input) THEN "notification"
    ELSE "general"

ClarificationQuestion ==
    <<"Could you provide more details about what you want to accomplish? For example: \"Send me a reminder every morning at 9am\" or \"Set up a new React project with testing\"">>

\* generateWorkflow, with the clock reading and the random suffix of
\* generateId as parameters.
generateWorkflow(userInput, now, random) ==
    LET input == Normalize(userInput)
    IN  IF TooVague(input)
        THEN [workflow |-> createEmptyWorkflow(userInput, now, random),
              clarificationNeeded |-> Some(TRUE),
              clarificationQuestion |-> Some(ClarificationQuestion)]
        ELSE [workflow |->
                 CASE TemplateFor(input) = "reminder" ->
                         generateReminderWorkflow(userInput, input, now, random)
                   [] TemplateFor(input) = "app-setup" ->
                         generateAppSetupWorkflow(userInput, input, now, random)
                   [] TemplateFor(input) = "notification" ->
                         generateNotificationWorkflow(userInput, input, now, random)
                   [] OTHER ->
                         generateGeneralWorkflow(userInput, input, now, random),
              clarificationNeeded |-> Undefined,
              clarificationQuestion |-> Undefined]

\* ------------------------------------------------------------------------
\* The inputs of the generator
\* ------------------------------------------------------------------------

\* The words the inputs are made of: a keyword of each of the three keyword
\* families (one of them capitalised), words the templates look for ("to",
\* "9am", "test", which belong to no family), and a word with U+0130.
Words ==
    { <<"r", "e", "m", "i", "n", "d">>, <<"A", "l", "e", "r", "t">>,
      <<"s", "e", "t", "u", "p">>, <<"s", "e", "n", "d">>,
      <<"t", "o">>, <<"9", "a", "m">>, <<"t", "e", "s", "t">>,
      <<"U+0130", "L">> }

\* The number of words (runs of code units other than the space) in s.
WordCount(s) ==
    Cardinality({ i \in 1..Len(s) : s[i] # " " /\ (i = 1 \/ s[i - 1] = " ") })

\* The sentences the specification and the README name.
ReactScenario ==
    <<"S", "e", "t", " ", "u", "p", " ", "a", " ", "n", "e", "w", " ", "R", "e", "a", "c",
        "t", " ", "p", "r", "o", "j", "e", "c", "t", " ", "w", "i", "t", "h", " ", "T", "y",
            "p", "e", "S", "c", "r", "i", "p", "t", " ", "a", "n", "d", " ", "t", "e", "s",
                "t", "i", "n", "g">>

SignupScenario ==
    <<"S", "e", "n", "d", " ", "a", "n", " ", "e", "m", "a", "i", "l", " ", "n", "o", "t",
        "i", "f", "i", "c", "a", "t", "i", "o", "n", " ", "w", "h", "e", "n", " ", "a", " ",
            "n", "e", "w", " ", "u", "s", "e", "r", " ", "s", "i", "g", "n", "s", " ", "u", "p">>

ReminderScenario ==
    <<"s", "e", "n", "d", " ", "m", "e", " ", "a", " ", "r", "e", "m", "i", "n", "d", "e", "r">>

\* The texts the input starts from: nothing, or one of the sentences.
InitialInputs == {<<>>, ReactScenario, SignupScenario, ReminderScenario}

\* Math.random().toString(36).substr(2, 9)
RandomSuffixes == {"k3j9x2m1q", "a8f0z7c4d"}

\* ------------------------------------------------------------------------
\* The input workflows of the executor
\* ------------------------------------------------------------------------

\* The id of the step at position i: ids are unique within a workflow.
StepIdAt(i) == StepId(i)

\* An id that no step carries.
UnknownId == "step-0"

\* dependencies?: string[] -- absent, empty, or a list of ids: of an earlier
\* step, of the step itself, of a later step, of no step.
DependencyChoices ==
    { Undefined,
      Some(<<>>),
      Some(<<"step-1">>),
      Some(<<"step-2">>),
      Some(<<"step-3">>),
      Some(<<"step-1", "step-2">>),
      Some(<<UnknownId>>) }

\* The config each kind of input step carries: the keys the simulated
\* output reads (command, channel, message, frequency, time), present or not.
ConfigOf(type) ==
    CASE type = "action"       -> [command |-> <<"npm run dev">>]
      [] type = "condition"    -> [frequency |-> <<"once">>, time |-> <<"9:00 AM">>]
      [] type = "notification" -> [channel |-> <<"email">>, message |-> <<"Complete your task">>]
      [] OTHER                 -> [retryOnFailure |-> TRUE]

InputStep(i, t, d) ==
    [id |-> StepIdAt(i), type |-> t, title |-> <<"Title of ", StepIdAt(i)>>,
     config |-> ConfigOf(t), dependencies |-> d]

\* The workflow of n steps with the given types and dependencies.
InputWorkflow(n, types, deps) ==
    [id |-> "wf-1", steps |-> [i \in 1..n |-> InputStep(i, types[i], deps[i])]]

\* ------------------------------------------------------------------------
\* State of one executeWorkflow call
\* ------------------------------------------------------------------------

VARIABLES
    workflow,     \* the workflow argument
    onProgress,   \* whether the caller passed an onProgress callback
    pc,           \* "start", "loop", "delay" (awaiting delay()), "finish", "done"
    cur,          \* position of the for-of loop in workflow.steps (1-based)
    execution,    \* the WorkflowExecution object; its logs field is a heap address
    heap,         \* address -> array of ExecutionLog objects
    snapshots,    \* the objects handed to onProgress, in call order
    clock,        \* the wall clock, in completed delays
    runLog,       \* the logs array of the CLI's runWorkflow, whose callback onProgress is
    userInput,    \* the text handed to generateWorkflow
    generated,    \* the GeneratorResult of generateWorkflow, Undefined before the call
    regenerated,  \* the GeneratorResult of a second call on the same text
    calls,        \* two concurrent executeWorkflow calls: call -> its local state
    files,        \* the directory .workflows: file name -> JSON document
    created,      \* the workflows createWorkflow has returned, in call order
    workflowHistory, \* the page's workflowHistory state
    stored,       \* localStorage: the item 'workflowHistory', Undefined if absent
    loading,      \* the page's loading state
    response,     \* the response of /api/generate in flight, Undefined if none
    captured      \* workflowHistory as the running handleGenerate closed over it

execVars == <<workflow, onProgress, pc, cur, execution, heap, snapshots, runLog>>

genVars == <<userInput, generated, regenerated>>

pairVars == <<calls>>

cliVars == <<files, created>>

pageVars == <<workflowHistory, stored, loading, response, captured>>

\* What executeWorkflow has no access to.
outsideExec == <<genVars, pairVars, cliVars, pageVars>>

\* What generateWorkflow has no access to.
outsideGen == <<execVars, pairVars, cliVars, pageVars>>

vars == <<execVars, clock, genVars, pairVars, cliVars, pageVars>>

NoExecution ==
    [workflowId |-> "", executionId |-> Undefined, status |-> "idle", logs |-> 0,
     startTime |-> Undefined, endTime |-> Undefined]

Steps == workflow.steps

NumSteps == Len(Steps)

\* execution.logs, dereferenced (empty before the record exists).
Logs == IF execution.logs \in DOMAIN heap THEN heap[execution.logs] ELSE <<>>

\* The logs array seen through an object handed to onProgress.
LogsThrough(obj) == heap[obj.logs]

\* What a caller reads through an object it holds.
ViewOf(obj) == [obj EXCEPT !.logs = LogsThrough(obj)]

\* ------------------------------------------------------------------------
\* Copies handed to onProgress
\* ------------------------------------------------------------------------

\* { ...execution }: the scalar fields are copied, logs is the same array.
SpreadCopy(exec, h) == [obj |-> exec, heap |-> h]

\* JSON.parse(JSON.stringify(execution)): a new logs array with new entries.
JsonCopy(exec, h) ==
    LET a == Cardinality(DOMAIN h) + 1
    IN  [obj |-> [exec EXCEPT !.logs = a],
         heap |-> [x \in DOMAIN h \cup {a} |-> IF x = a THEN h[exec.logs] ELSE h[x]]]

\* The first snapshot, line 29.
InitialSnapshot(exec, h) == SpreadCopy(exec, h)

\* The snapshots taken when a step starts and ends, lines 54 and 68.
StepSnapshot(exec, h) == JsonCopy(exec, h)

\* The last snapshot, line 83.
FinalSnapshot(exec, h) == SpreadCopy(exec, h)

\* ------------------------------------------------------------------------
\* Helpers of the loop body
\* ------------------------------------------------------------------------

\* A variant of InitialLogs that gives no log to a step that declares dependencies.
InitialLogsWithoutDependents(steps) ==
    LET RECURSIVE build(_)
        build(i) ==
            IF i > Len(steps) THEN <<>>
            ELSE (IF steps[i].dependencies # Undefined THEN <<>>
                  ELSE <<[stepId |-> steps[i].id, stepTitle |-> steps[i].title,
                          status |-> "pending", startTime |-> Undefined,
                          endTime |-> Undefined, output |-> Undefined,
                          error |-> Undefined]>>) \o build(i + 1)
    IN  build(1)

\* Lines 21-27: one pending log per step, in step order.
InitialLogs(steps) ==
    [i \in 1..Len(steps) |->
        [stepId |-> steps[i].id, stepTitle |-> steps[i].title, status |-> "pending",
         startTime |-> Undefined, endTime |-> Undefined, output |-> Undefined,
         error |-> Undefined]]

\* Array.prototype.findIndex: the first position whose stepId is id, 0 if none.
FindIndex(logs, id) ==
    IF \E i \in 1..Len(logs) : logs[i].stepId = id
    THEN CHOOSE i \in 1..Len(logs) :
            /\ logs[i].stepId = id
            /\ \A j \in 1..(i - 1) : logs[j].stepId # id
    ELSE 0

\* A variant of DepsComplete with some() in the place of every().
DepsCompleteSome(logs, deps) ==
    \E k \in 1..Len(deps) :
        LET d == FindIndex(logs, deps[k])
        IN  d # 0 /\ logs[d].status = "completed"

\* A variant of DepsComplete that passes an id no log carries.
DepsCompleteIgnoringUnknown(logs, deps) ==
    \A k \in 1..Len(deps) :
        LET d == FindIndex(logs, deps[k])
        IN  d = 0 \/ logs[d].status = "completed"

\* step.dependencies.every(depId => logs.find(...)?.status === 'completed')
DepsComplete(logs, deps) ==
    \A k \in 1..Len(deps) :
        LET d == FindIndex(logs, deps[k])
        IN  d # 0 /\ logs[d].status = "completed"

\* if (step.dependencies) { ... if (!depsComplete) ... }
DependenciesNotMet(logs, step) ==
    /\ step.dependencies # Undefined
    /\ ~DepsComplete(logs, step.dependencies[1])

\* if (config.key): the key is present and its text is not empty.
Truthy(config, key) == key \in DOMAIN config /\ config[key] # <<>>

\* if (config.key) output += `\n<label>${config.key}`
ConfigLine(label, config, key) ==
    IF Truthy(config, key) THEN <<label>> \o config[key] ELSE <<>>

\* simulateStepExecution, with the random draw as the parameter success.
simulateStepExecution(type, title, config, success) ==
    IF ~success
    THEN [success |-> FALSE, output |-> Undefined,
          error |-> Some(<<"Simulated execution error">>)]
    ELSE LET head ==
               CASE type = "action" ->
                      <<"Action executed successfully: ">> \o title
                         \o ConfigLine("Command: ", config, "command")
                 [] type = "condition" ->
                      <<"Condition evaluated: ">> \o title \o <<"Result: true">>
                 [] type = "notification" ->
                      <<"Notification sent: ">> \o title
                         \o ConfigLine("Channel: ", config, "channel")
                         \o ConfigLine("Message: ", config, "message")
                 [] type = "delay" ->
                      <<"Delay completed: ">> \o title
                 [] OTHER ->
                      <<"Step completed: ">> \o title
         IN  [success |-> TRUE,
              output |-> Some(head \o ConfigLine("Frequency: ", config, "frequency")
                                   \o ConfigLine("Scheduled time: ", config, "time")),
              error |-> Undefined]

\* A variant of IsCritical with === in the place of !==.
IsCriticalOnCondition(success, type) == ~success /\ type = "condition"

\* A variant of IsCritical under which only a failed 'action' step halts.
IsCriticalOfAction(success, type) == ~success /\ type = "action"

\* A variant of IsCritical that ignores the step's type.
IsCriticalAnyType(success, type) == ~success

\* if (!result.success && step.type !== 'condition'): the halt rule.
IsCritical(success, type) == ~success /\ type # "condition"

\* ------------------------------------------------------------------------
\* executeWorkflow
\* ------------------------------------------------------------------------

\* No text has been handed to generateWorkflow.
NoGeneration ==
    /\ userInput = <<>>
    /\ generated = Undefined
    /\ regenerated = Undefined

\* No pair of concurrent calls has been made.
NoCalls == calls = <<>>

\* The directory .workflows is empty.
NoFiles ==
    /\ files = <<>>
    /\ created = <<>>

\* The page is not open.
NoPage ==
    /\ workflowHistory = <<>>
    /\ stored = Undefined
    /\ loading = FALSE
    /\ response = Undefined
    /\ captured = <<>>

\* executeWorkflow has not been called.
NoRun ==
    /\ workflow = [id |-> "", steps |-> <<>>]
    /\ onProgress = FALSE
    /\ pc = "start"
    /\ cur = 0
    /\ execution = NoExecution
    /\ heap = <<>>
    /\ snapshots = <<>>
    /\ runLog = <<>>

Init ==
    /\ \E n \in 0..MaxSteps :
          \E types \in [1..n -> StepTypes], deps \in [1..n -> DependencyChoices] :
             workflow = InputWorkflow(n, types, deps)
    /\ onProgress \in BOOLEAN
    /\ pc = "start"
    /\ cur = 0
    /\ execution = NoExecution
    /\ heap = <<>>
    /\ snapshots = <<>>
    /\ runLog = <<>>
    /\ clock = 0
    /\ NoGeneration
    /\ NoCalls
    /\ NoFiles
    /\ NoPage

\* The callback runWorkflow passes to executeWorkflow
\* (src/cli/workflow-agent.ts, lines 122-140): the lines it pushes for the
\* logs array it is handed, entry by entry.
CallbackLines(logs) ==
    LET RECURSIVE from(_)
        from(idx) ==
            IF idx > Len(logs) THEN <<>>
            ELSE LET log == logs[idx]
                     stepNum == <<"Step ", ToString(idx), ": ">> \o log.stepTitle
                 IN  (CASE log.status = "running" ->
                             <<stepNum \o <<" - RUNNING">>>>
                        [] log.status = "completed" ->
                             <<stepNum \o <<" - COMPLETED">>>>
                                \o (IF log.output # Undefined /\ log.output[1] # <<>>
                                    THEN <<<<"   ">> \o log.output[1]>> ELSE <<>>)
                        [] log.status = "failed" ->
                             <<stepNum \o <<" - FAILED">>>>
                                \o (IF log.error # Undefined /\ log.error[1] # <<>>
                                    THEN <<<<"   Error: ">> \o log.error[1]>> ELSE <<>>)
                        [] OTHER -> <<>>) \o from(idx + 1)
    IN  from(1)

\* if (onProgress) onProgress(copy): h is the heap before the call; a given
\* callback receives copy.obj, and copy.heap holds what the copy allocated.
\* The callback is the one of runWorkflow, which pushes lines to its logs.
Deliver(h, copy) ==
    IF onProgress
    THEN /\ snapshots' = Append(snapshots, copy.obj)
         /\ heap' = copy.heap
         /\ runLog' = runLog \o CallbackLines(copy.heap[copy.obj.logs])
    ELSE /\ snapshots' = snapshots
         /\ heap' = h
         /\ runLog' = runLog

\* Lines 12-29: the record, one pending log per step, the first snapshot.
Begin ==
    /\ pc = "start"
    /\ LET logs == InitialLogs(Steps)
           exec == [workflowId |-> workflow.id, executionId |-> Some(<<"exec-", ToString(clock)>>),
                    status |-> "running", logs |-> 1,
                    startTime |-> Some(clock), endTime |-> Undefined]
       IN  /\ execution' = exec
           /\ Deliver(<<logs>>, InitialSnapshot(exec, <<logs>>))
    /\ pc' = "loop"
    /\ cur' = 1
    /\ UNCHANGED <<workflow, onProgress, clock, outsideExec>>

\* A variant of SkipStep that also clears the dependencies of the step object.
SkipStepClearingDependencies ==
    /\ pc = "loop"
    /\ cur <= NumSteps
    /\ DependenciesNotMet(Logs, Steps[cur])
    /\ LET logIndex == FindIndex(Logs, Steps[cur].id)
       IN  heap' = [heap EXCEPT ![execution.logs][logIndex].status = "failed",
                                ![execution.logs][logIndex].error =
                                    Some(<<"Dependencies not met">>)]
    /\ workflow' = [workflow EXCEPT !.steps[cur].dependencies = Some(<<>>)]
    /\ cur' = cur + 1
    /\ UNCHANGED <<onProgress, pc, execution, snapshots, runLog, clock, outsideExec>>

\* A variant of SkipStep under which the failed dependency check halts the run.
SkipStepHalting ==
    /\ pc = "loop"
    /\ cur <= NumSteps
    /\ DependenciesNotMet(Logs, Steps[cur])
    /\ LET logIndex == FindIndex(Logs, Steps[cur].id)
       IN  heap' = [heap EXCEPT ![execution.logs][logIndex].status = "failed",
                                ![execution.logs][logIndex].error =
                                    Some(<<"Dependencies not met">>)]
    /\ execution' = [execution EXCEPT !.status = "failed"]
    /\ pc' = "finish"
    /\ UNCHANGED <<workflow, onProgress, cur, snapshots, runLog, clock, outsideExec>>

\* Lines 33-46: the step at cur has an incomplete dependency.
SkipStep ==
    /\ pc = "loop"
    /\ cur <= NumSteps
    /\ DependenciesNotMet(Logs, Steps[cur])
    /\ LET logIndex == FindIndex(Logs, Steps[cur].id)
       IN  heap' = [heap EXCEPT ![execution.logs][logIndex].status = "failed",
                                ![execution.logs][logIndex].error =
                                    Some(<<"Dependencies not met">>)]
    /\ cur' = cur + 1
    /\ UNCHANGED <<workflow, onProgress, pc, execution, snapshots, runLog, clock, outsideExec>>

\* A variant of StartStep that does not set the log to 'running'.
StartStepStillPending ==
    /\ pc = "loop"
    /\ cur <= NumSteps
    /\ ~DependenciesNotMet(Logs, Steps[cur])
    /\ LET logIndex == FindIndex(Logs, Steps[cur].id)
           h == [heap EXCEPT ![execution.logs][logIndex].startTime = Some(clock)]
       IN  Deliver(h, StepSnapshot(execution, h))
    /\ pc' = "delay"
    /\ UNCHANGED <<workflow, onProgress, cur, execution, clock, outsideExec>>

\* Lines 33-57: the step at cur starts, up to the await of delay().
StartStep ==
    /\ pc = "loop"
    /\ cur <= NumSteps
    /\ ~DependenciesNotMet(Logs, Steps[cur])
    /\ LET logIndex == FindIndex(Logs, Steps[cur].id)
           h == [heap EXCEPT ![execution.logs][logIndex].status = "running",
                             ![execution.logs][logIndex].startTime = Some(clock)]
       IN  Deliver(h, StepSnapshot(execution, h))
    /\ pc' = "delay"
    /\ UNCHANGED <<workflow, onProgress, cur, execution, clock, outsideExec>>

\* A variant of FinishStep that moves on without recording the step's status.
FinishStepLeavingRunning(success) ==
    /\ pc = "delay"
    /\ clock' = clock + 1
    /\ LET step == Steps[cur]
           logIndex == FindIndex(Logs, step.id)
           result == simulateStepExecution(step.type, step.title, step.config, success)
           h == [heap EXCEPT ![execution.logs][logIndex].endTime = Some(clock'),
                             ![execution.logs][logIndex].output = result.output,
                             ![execution.logs][logIndex].error = result.error]
       IN  /\ Deliver(h, StepSnapshot(execution, h))
           /\ IF IsCritical(result.success, step.type)
              THEN /\ execution' = [execution EXCEPT !.status = "failed"]
                   /\ pc' = "finish"
                   /\ cur' = cur
              ELSE /\ execution' = execution
                   /\ pc' = "loop"
                   /\ cur' = cur + 1
    /\ UNCHANGED <<workflow, onProgress, outsideExec>>

\* A variant of FinishStep that applies the halt rule before it notifies.
FinishStepHaltingFirst(success) ==
    /\ pc = "delay"
    /\ clock' = clock + 1
    /\ LET step == Steps[cur]
           logIndex == FindIndex(Logs, step.id)
           result == simulateStepExecution(step.type, step.title, step.config, success)
           h == [heap EXCEPT ![execution.logs][logIndex].status =
                                 IF result.success THEN "completed" ELSE "failed",
                             ![execution.logs][logIndex].endTime = Some(clock'),
                             ![execution.logs][logIndex].output = result.output,
                             ![execution.logs][logIndex].error = result.error]
           exec == IF IsCritical(result.success, step.type)
                   THEN [execution EXCEPT !.status = "failed"] ELSE execution
       IN  /\ Deliver(h, StepSnapshot(exec, h))
           /\ execution' = exec
           /\ IF IsCritical(result.success, step.type)
              THEN pc' = "finish" /\ cur' = cur
              ELSE pc' = "loop" /\ cur' = cur + 1
    /\ UNCHANGED <<workflow, onProgress, outsideExec>>

\* Lines 57-74: the delay is over, the step's simulated result is recorded.
FinishStep(success) ==
    /\ pc = "delay"
    /\ clock' = clock + 1
    /\ LET step == Steps[cur]
           logIndex == FindIndex(Logs, step.id)
           result == simulateStepExecution(step.type, step.title, step.config, success)
           h == [heap EXCEPT ![execution.logs][logIndex].status =
                                 IF result.success THEN "completed" ELSE "failed",
                             ![execution.logs][logIndex].endTime = Some(clock'),
                             ![execution.logs][logIndex].output = result.output,
                             ![execution.logs][logIndex].error = result.error]
       IN  /\ Deliver(h, StepSnapshot(execution, h))
           /\ IF IsCritical(result.success, step.type)
              THEN /\ execution' = [execution EXCEPT !.status = "failed"]
                   /\ pc' = "finish"
                   /\ cur' = cur
              ELSE /\ execution' = execution
                   /\ pc' = "loop"
                   /\ cur' = cur + 1
    /\ UNCHANGED <<workflow, onProgress, outsideExec>>

\* A variant of Complete that leaves the overall status as it is.
CompleteKeepingStatus ==
    /\ \/ pc = "loop" /\ cur > NumSteps
       \/ pc = "finish"
    /\ LET exec == [execution EXCEPT !.endTime = Some(clock)]
       IN  /\ execution' = exec
           /\ Deliver(heap, FinalSnapshot(exec, heap))
    /\ pc' = "done"
    /\ UNCHANGED <<workflow, onProgress, cur, clock, outsideExec>>

\* Lines 77-85: the loop is over (exhausted or broken), the record is returned.
Complete ==
    /\ \/ pc = "loop" /\ cur > NumSteps
       \/ pc = "finish"
    /\ LET exec == [execution EXCEPT
                       !.status = IF execution.status = "running"
                                  THEN "completed" ELSE execution.status,
                       !.endTime = Some(clock)]
       IN  /\ execution' = exec
           /\ Deliver(heap, FinalSnapshot(exec, heap))
    /\ pc' = "done"
    /\ UNCHANGED <<workflow, onProgress, cur, clock, outsideExec>>

Next ==
    \/ Begin
    \/ SkipStep
    \/ StartStep
    \/ \E success \in BOOLEAN : FinishStep(success)
    \/ Complete

Spec == Init /\ [][Next]_vars

\* The synchronous stretches of executeWorkflow run to their end, and the
\* timer of delay() (lines 147-149) fires.
Fairness ==
    /\ WF_vars(Begin)
    /\ WF_vars(SkipStep)
    /\ WF_vars(StartStep)
    /\ WF_vars(\E success \in BOOLEAN : FinishStep(success))
    /\ WF_vars(Complete)

\* The dependencies of the workflows whose runs are followed to their end:
\* absent, on the first step, on no step.
LiveDependencyChoices == { Undefined, Some(<<"step-1">>), Some(<<UnknownId>>) }

InitLive ==
    /\ \E n \in 0..MaxSteps :
          \E types \in [1..n -> StepTypes], deps \in [1..n -> LiveDependencyChoices] :
             workflow = InputWorkflow(n, types, deps)
    /\ onProgress \in BOOLEAN
    /\ pc = "start"
    /\ cur = 0
    /\ execution = NoExecution
    /\ heap = <<>>
    /\ snapshots = <<>>
    /\ runLog = <<>>
    /\ clock = 0
    /\ NoGeneration
    /\ NoCalls
    /\ NoFiles
    /\ NoPage

SpecLive == InitLive /\ [][Next]_vars /\ Fairness

\* ------------------------------------------------------------------------
\* Two executeWorkflow calls running concurrently, without onProgress
\* ------------------------------------------------------------------------

CallIds == {1, 2}

\* dependencies of the steps of the two documents: absent, or the first step.
PairDependencyChoices == {Undefined, Some(<<"step-1">>)}

\* The step types of the first document.
PairTypes == {"action", "condition"}

\* How the second document's step types differ from the first's: not at
\* all; every action turned into a notification, into a delay, or into a
\* condition; every condition turned into an action.
Retypings ==
    { [t \in StepTypes |-> t],
      [t \in StepTypes |-> IF t = "action" THEN "notification" ELSE t],
      [t \in StepTypes |-> IF t = "action" THEN "delay" ELSE t],
      [t \in StepTypes |-> IF t = "action" THEN "condition" ELSE t],
      [t \in StepTypes |-> IF t = "condition" THEN "action" ELSE t] }

\* The first document with the type of every step replaced; another
\* document (another id) unless nothing is replaced.
Retyped(wf, r) ==
    IF \A i \in 1..Len(wf.steps) : r[wf.steps[i].type] = wf.steps[i].type
    THEN wf
    ELSE [id |-> "wf-2",
          steps |-> [i \in 1..Len(wf.steps) |->
                        [wf.steps[i] EXCEPT !.type = r[wf.steps[i].type],
                                            !.config = ConfigOf(r[wf.steps[i].type])]]]

\* The local state of a call that has not yet run: its argument, its
\* position, its record, and the draws of Math.random() it has made.
LocalStart(wf) ==
    [workflow |-> wf, pc |-> "start", cur |-> 0, execution |-> NoExecution,
     outcomes |-> <<>>]

InitTwo ==
    /\ \E n \in 1..MaxSteps :
          \E types \in [1..n -> PairTypes], deps \in [1..n -> PairDependencyChoices],
             r \in Retypings :
             calls = << LocalStart(InputWorkflow(n, types, deps)),
                        LocalStart(Retyped(InputWorkflow(n, types, deps), r)) >>
    /\ clock = 0
    /\ NoRun
    /\ NoGeneration
    /\ NoFiles
    /\ NoPage

\* What a call of the pair has no access to.
outsidePair ==
    <<workflow, onProgress, pc, cur, execution, snapshots, runLog, genVars, cliVars, pageVars>>

\* A variant of NewAddress: one logs array at module level, shared by all calls.
SharedAddress(h) == 1

\* logs: [] -- the array literal of line 16 is a new array.
NewAddress(h) == Cardinality(DOMAIN h) + 1

\* execution.logs of call c, dereferenced.
CallLogs(c) ==
    IF calls[c].execution.logs \in DOMAIN heap THEN heap[calls[c].execution.logs] ELSE <<>>

\* Lines 12-27 in call c.
CallBegin(c) ==
    /\ calls[c].pc = "start"
    /\ LET a == NewAddress(heap)
           logs == InitialLogs(calls[c].workflow.steps)
       IN  /\ heap' = [x \in DOMAIN heap \cup {a} |-> IF x = a THEN logs ELSE heap[x]]
           /\ calls' = [calls EXCEPT
                           ![c].execution =
                               [workflowId |-> calls[c].workflow.id,
                                executionId |-> Some(<<"exec-", ToString(clock)>>),
                                status |-> "running", logs |-> a,
                                startTime |-> Some(clock), endTime |-> Undefined],
                           ![c].pc = "loop",
                           ![c].cur = 1]
    /\ UNCHANGED <<clock, outsidePair>>

\* Lines 33-46 in call c.
CallSkipStep(c) ==
    LET self == calls[c]
        steps == self.workflow.steps
    IN  /\ self.pc = "loop"
        /\ self.cur <= Len(steps)
        /\ DependenciesNotMet(CallLogs(c), steps[self.cur])
        /\ LET logIndex == FindIndex(CallLogs(c), steps[self.cur].id)
           IN  heap' = [heap EXCEPT ![self.execution.logs][logIndex].status = "failed",
                                    ![self.execution.logs][logIndex].error =
                                        Some(<<"Dependencies not met">>)]
        /\ calls' = [calls EXCEPT ![c].cur = self.cur + 1]
        /\ UNCHANGED <<clock, outsidePair>>

\* Lines 33-57 in call c.
CallStartStep(c) ==
    LET self == calls[c]
        steps == self.workflow.steps
    IN  /\ self.pc = "loop"
        /\ self.cur <= Len(steps)
        /\ ~DependenciesNotMet(CallLogs(c), steps[self.cur])
        /\ LET logIndex == FindIndex(CallLogs(c), steps[self.cur].id)
           IN  heap' = [heap EXCEPT ![self.execution.logs][logIndex].status = "running",
                                    ![self.execution.logs][logIndex].startTime = Some(clock)]
        /\ calls' = [calls EXCEPT ![c].pc = "delay"]
        /\ UNCHANGED <<clock, outsidePair>>

\* Lines 57-74 in call c.
CallFinishStep(c, success) ==
    LET self == calls[c]
        step == self.workflow.steps[self.cur]
        logIndex == FindIndex(CallLogs(c), step.id)
        result == simulateStepExecution(step.type, step.title, step.config, success)
    IN  /\ self.pc = "delay"
        /\ clock' = clock + 1
        /\ heap' = [heap EXCEPT ![self.execution.logs][logIndex].status =
                                    IF result.success THEN "completed" ELSE "failed",
                                ![self.execution.logs][logIndex].endTime = Some(clock'),
                                ![self.execution.logs][logIndex].output = result.output,
                                ![self.execution.logs][logIndex].error = result.error]
        /\ calls' = IF IsCritical(result.success, step.type)
                    THEN [calls EXCEPT ![c].execution.status = "failed",
                                       ![c].pc = "finish",
                                       ![c].outcomes = Append(self.outcomes, success)]
                    ELSE [calls EXCEPT ![c].pc = "loop",
                                       ![c].cur = self.cur + 1,
                                       ![c].outcomes = Append(self.outcomes, success)]
        /\ UNCHANGED outsidePair

\* Lines 77-85 in call c.
CallComplete(c) ==
    LET self == calls[c]
    IN  /\ \/ self.pc = "loop" /\ self.cur > Len(self.workflow.steps)
           \/ self.pc = "finish"
        /\ calls' = [calls EXCEPT
                        ![c].execution.status =
                            IF self.execution.status = "running"
                            THEN "completed" ELSE self.execution.status,
                        ![c].execution.endTime = Some(clock),
                        ![c].pc = "done"]
        /\ UNCHANGED <<heap, clock, outsidePair>>

NextTwo ==
    \E c \in CallIds :
       \/ CallBegin(c)
       \/ CallSkipStep(c)
       \/ CallStartStep(c)
       \/ \E success \in BOOLEAN : CallFinishStep(c, success)
       \/ CallComplete(c)

SpecTwo == InitTwo /\ [][NextTwo]_vars

\* executeWorkflow(wf) run alone, as a function of the draws of
\* Math.random(): the returned status and logs, the clock counting the
\* call's own delays.
RunAlone(wf, outcomes) ==
    LET steps == wf.steps
        RECURSIVE loop(_, _, _)
        loop(logs, i, k) ==
            IF i > Len(steps)
            THEN [status |-> "completed", logs |-> logs]
            ELSE LET logIndex == FindIndex(logs, steps[i].id)
                 IN  IF DependenciesNotMet(logs, steps[i])
                     THEN loop([logs EXCEPT ![logIndex].status = "failed",
                                            ![logIndex].error = Some(<<"Dependencies not met">>)],
                               i + 1, k)
                     ELSE IF k > Len(outcomes)
                     THEN [status |-> "running",
                           logs |-> [logs EXCEPT ![logIndex].status = "running",
                                                 ![logIndex].startTime = Some(k - 1)]]
                     ELSE LET result == simulateStepExecution(steps[i].type, steps[i].title,
                                                              steps[i].config, outcomes[k])
                              after == [logs EXCEPT
                                          ![logIndex].status =
                                              IF result.success THEN "completed" ELSE "failed",
                                          ![logIndex].startTime = Some(k - 1),
                                          ![logIndex].endTime = Some(k),
                                          ![logIndex].output = result.output,
                                          ![logIndex].error = result.error]
                          IN  IF IsCritical(result.success, steps[i].type)
                              THEN [status |-> "failed", logs |-> after]
                              ELSE loop(after, i + 1, k + 1)
    IN  loop(InitialLogs(steps), 1, 1)

\* ------------------------------------------------------------------------
\* JSON documents of workflows
\* ------------------------------------------------------------------------

\* A JSON object is a record that has the keys that are present:
\* JSON.stringify leaves out a property whose value is undefined, and
\* JSON.parse gives an object on which reading a missing property yields
\* undefined.

\* JSON.stringify of a WorkflowStep.
StringifyStep(step) ==
    LET always == [id |-> step.id, type |-> step.type, title |-> step.title,
                   description |-> step.description, reasoning |-> step.reasoning,
                   config |-> step.config]
    IN  IF step.dependencies = Undefined
        THEN always
        ELSE always @@ [dependencies |-> step.dependencies[1]]

\* A parsed WorkflowStep, as the program reads it.
ParseStep(json) ==
    [id |-> json.id, type |-> json.type, title |-> json.title,
     description |-> json.description, reasoning |-> json.reasoning,
     config |-> json.config,
     dependencies |-> IF "dependencies" \in DOMAIN json
                      THEN Some(json.dependencies) ELSE Undefined]

\* JSON.stringify of trigger.config: cron may be undefined.
StringifyTriggerConfig(config) ==
    IF "cron" \in DOMAIN config
    THEN IF config.cron = Undefined
         THEN [schedule |-> config.schedule]
         ELSE [schedule |-> config.schedule, cron |-> config.cron[1]]
    ELSE config

ParseTriggerConfig(json) ==
    IF "schedule" \in DOMAIN json
    THEN [schedule |-> json.schedule,
          cron |-> IF "cron" \in DOMAIN json THEN Some(json.cron) ELSE Undefined]
    ELSE json

\* JSON.stringify of a WorkflowTrigger: config may be undefined.
StringifyTrigger(trigger) ==
    LET always == [type |-> trigger.type, description |-> trigger.description]
    IN  IF trigger.config = Undefined
        THEN always
        ELSE always @@ [config |-> StringifyTriggerConfig(trigger.config[1])]

ParseTrigger(json) ==
    [type |-> json.type, description |-> json.description,
     config |-> IF "config" \in DOMAIN json
                THEN Some(ParseTriggerConfig(json.config)) ELSE Undefined]

\* JSON.stringify(workflow, null, 2)
StringifyWorkflow(w) ==
    [id |-> w.id, name |-> w.name, description |-> w.description, domain |-> w.domain,
     trigger |-> StringifyTrigger(w.trigger),
     steps |-> [i \in 1..Len(w.steps) |-> StringifyStep(w.steps[i])],
     metadata |-> w.metadata]

\* JSON.parse of a workflow document
ParseWorkflow(json) ==
    [id |-> json.id, name |-> json.name, description |-> json.description,
     domain |-> json.domain,
     trigger |-> ParseTrigger(json.trigger),
     steps |-> [i \in 1..Len(json.steps) |-> ParseStep(json.steps[i])],
     metadata |-> json.metadata]

\* ------------------------------------------------------------------------
\* The CLI (src/cli/workflow-agent.ts)
\* ------------------------------------------------------------------------

\* Most createWorkflow calls.
MaxCreates == 2

\* path.join(WORKFLOWS_DIR, 'last.json')
LAST_WORKFLOW_FILE == <<".workflows/", "last", ".json">>

\* path.join(WORKFLOWS_DIR, `${id}.json`)
WorkflowPath(id) == <<".workflows/">> \o id \o <<".json">>

\* fs.writeFileSync(path, text)
WriteFile(fs, path, text) ==
    [x \in DOMAIN fs \cup {path} |-> IF x = path THEN text ELSE fs[x]]

\* A variant of SaveWorkflow that writes the workflow's own file only.
SaveWorkflowByIdOnly(fs, w) == WriteFile(fs, WorkflowPath(w.id), StringifyWorkflow(w))

\* Lines 70-72: the workflow's own file, then last.json.
SaveWorkflow(fs, w) ==
    WriteFile(WriteFile(fs, WorkflowPath(w.id), StringifyWorkflow(w)),
              LAST_WORKFLOW_FILE, StringifyWorkflow(w))

\* Lines 64-67: two lines per step.
StepLines(steps) ==
    LET RECURSIVE from(_)
        from(idx) ==
            IF idx > Len(steps) THEN <<>>
            ELSE << <<"  ", ToString(idx), ". ">> \o steps[idx].title
                       \o <<" (", steps[idx].type, ")">>,
                    <<"     -- ">> \o steps[idx].description >> \o from(idx + 1)
    IN  from(1)

\* createWorkflow(description) on the directory fs, with the clock reading
\* and the random suffix of generateId: the CLIResult and the directory
\* afterwards.
createWorkflow(description, now, random, fs) ==
    LET result == generateWorkflow(description, now, random)
        w == result.workflow
    IN  IF result.clarificationNeeded = Some(TRUE)
        THEN [result |-> [success |-> FALSE, data |-> Undefined,
                          error |-> result.clarificationQuestion,
                          logs |-> << <<"Cline CLI Agent: Analyzing workflow description...">>,
                                      <<"Clarification needed">> >>],
              files |-> fs]
        ELSE [result |-> [success |-> TRUE, data |-> Some(w), error |-> Undefined,
                          logs |-> << <<"Cline CLI Agent: Analyzing workflow description...">>,
                                      <<"Workflow generated: ">> \o w.name,
                                      <<"Domain: ", w.domain>>,
                                      <<"Steps: ", ToString(Len(w.steps))>>,
                                      <<>>,
                                      <<"Agent Reasoning:">>,
                                      w.metadata.agentReasoning,
                                      <<>>,
                                      <<"Workflow Steps:">> >>
                                   \o StepLines(w.steps)
                                   \o << <<>>, <<"Workflow saved: ">> \o w.id >>],
              files |-> SaveWorkflow(fs, w)]

\* The descriptions handed to createWorkflow: one that is too vague, one
\* for the Reminder template, one for the General template.
Descriptions == { <<"r", "e", "m", "i", "n", "d">>, ReminderScenario, ReactScenario }

\* The random suffix generateId draws in the calls of the CLI: with one
\* suffix, two workflows created at the same clock reading have the same id.
CliSuffixes == {"k3j9x2m1q"}

\* The arguments handed to runWorkflow: 'last', or an id (of a workflow
\* created at clock reading 0, if there is one).
RunArguments == { <<"last">> } \cup { generateId(0, random) : random \in CliSuffixes }

InitCli ==
    /\ files = <<>>
    /\ created = <<>>
    /\ clock = 0
    /\ workflow = [id |-> "", steps |-> <<>>]
    /\ onProgress = FALSE
    /\ pc = "unloaded"
    /\ cur = 0
    /\ execution = NoExecution
    /\ heap = <<>>
    /\ snapshots = <<>>
    /\ runLog = <<>>
    /\ NoGeneration
    /\ NoCalls
    /\ NoPage

\* A call createWorkflow(description); created collects the CLIResults.
CreateWorkflow(description, random) ==
    /\ Len(created) < MaxCreates
    /\ \E now \in {clock, clock + 1} :
          \E out \in {createWorkflow(description, now, random, files)} :
              /\ clock' = now
              /\ files' = out.files
              /\ created' = Append(created, out.result)
    /\ UNCHANGED <<execVars, genVars, pairVars, pageVars>>

\* runWorkflow(workflowIdOrLast), lines 95-122: the workflow is loaded and
\* handed to executeWorkflow with the callback; a missing file ends the call.
RunWorkflow(workflowIdOrLast) ==
    /\ pc = "unloaded"
    /\ LET path == IF workflowIdOrLast = <<"last">>
                   THEN LAST_WORKFLOW_FILE ELSE WorkflowPath(workflowIdOrLast)
       IN  IF path \notin DOMAIN files
           THEN /\ runLog' = << <<"Cline CLI Agent: Loading workflow...">>,
                                IF workflowIdOrLast = <<"last">>
                                THEN <<"Error: No workflow found. Create one first with: workflow-agent create">>
                                ELSE <<"Error: Workflow not found: ">> \o workflowIdOrLast >>
                /\ pc' = "returned"
                /\ UNCHANGED <<workflow, onProgress>>
           ELSE /\ workflow' = ParseWorkflow(files[path])
                /\ runLog' = << <<"Cline CLI Agent: Loading workflow...">>,
                                IF workflowIdOrLast = <<"last">>
                                THEN <<"Loaded last workflow">>
                                ELSE <<"Loaded workflow: ">> \o workflowIdOrLast,
                                <<"Executing: ">> \o workflow'.name,
                                <<>> >>
                /\ onProgress' = TRUE
                /\ pc' = "start"
    /\ UNCHANGED <<cur, execution, heap, snapshots, clock, genVars, pairVars, cliVars, pageVars>>

\* runWorkflow, lines 147-155: the promise is resolved by the last
\* snapshot; the summary lines are pushed and the CLIResult is returned.
RunWorkflowReturn ==
    /\ pc = "done"
    /\ runLog' = runLog \o << <<>>,
                               <<"Execution ", execution.status>>,
                               <<"Duration: ",
                                 ToString(execution.endTime[1] - execution.startTime[1]),
                                 "s">> >>
    /\ pc' = "returned"
    /\ UNCHANGED <<workflow, onProgress, cur, execution, heap, snapshots, clock,
                   genVars, pairVars, cliVars, pageVars>>

NextCli ==
    \/ \E description \in Descriptions, random \in CliSuffixes :
          CreateWorkflow(description, random)
    \/ \E workflowIdOrLast \in RunArguments : RunWorkflow(workflowIdOrLast)
    \/ Begin
    \/ SkipStep
    \/ StartStep
    \/ \E success \in BOOLEAN : FinishStep(success)
    \/ Complete
    \/ RunWorkflowReturn

SpecCli == InitCli /\ [][NextCli]_vars

\* ------------------------------------------------------------------------
\* The page (src/app/page.tsx) and the route /api/generate
\* ------------------------------------------------------------------------

\* Most generate operations on the page.
MaxGenerates == 4

\* The texts typed into the page: one that is too vague, one for the
\* Reminder template.
PageInputs == { <<"r", "e", "m", "i", "n", "d">>, ReminderScenario }

\* The state null of the page's workflow and execution.
Null == <<>>

\* Array.prototype.filter(w => w.id !== id)
WithoutId(history, id) ==
    LET RECURSIVE from(_)
        from(i) ==
            IF i > Len(history) THEN <<>>
            ELSE (IF history[i].id # id THEN <<history[i]>> ELSE <<>>) \o from(i + 1)
    IN  from(1)

\* Array.prototype.slice(0, 3)
FirstThree(history) == SubSeq(history, 1, IF Len(history) < 3 THEN Len(history) ELSE 3)

\* A variant of saveToHistory that does not filter out the workflow's id.
saveToHistoryWithoutFilter(history, newWorkflow) ==
    FirstThree(<<newWorkflow>> \o history)

\* saveToHistory, line 42: the list it stores, from the list it closed over.
saveToHistory(history, newWorkflow) ==
    FirstThree(<<newWorkflow>> \o WithoutId(history, newWorkflow.id))

\* JSON.stringify(updated), line 44
StringifyHistory(history) == [i \in 1..Len(history) |-> StringifyWorkflow(history[i])]

\* JSON.parse(saved), line 33
ParseHistory(json) == [i \in 1..Len(json) |-> ParseWorkflow(json[i])]

\* The useEffect of lines 29-38: the history the page mounts with.
MountedHistory(item) == IF item = Undefined THEN <<>> ELSE ParseHistory(item[1])

\* POST /api/generate for the body { userInput }: the body of the response,
\* as the page reads it after response.json().
ResponseOf(cliResult) ==
    IF ~cliResult.success
    THEN [workflow |-> [steps |-> <<>>],
          clarificationNeeded |-> Some(TRUE),
          clarificationQuestion |-> cliResult.error,
          cliLogs |-> cliResult.logs]
    ELSE [workflow |-> ParseWorkflow(StringifyWorkflow(cliResult.data[1])),
          clarificationNeeded |-> Undefined,
          clarificationQuestion |-> Undefined,
          cliLogs |-> cliResult.logs]

InitPage ==
    /\ userInput = <<>>
    /\ generated = Undefined
    /\ regenerated = Undefined
    /\ workflow = Null
    /\ workflowHistory = <<>>
    /\ stored = Undefined
    /\ loading = FALSE
    /\ response = Undefined
    /\ captured = <<>>
    /\ files = <<>>
    /\ created = <<>>
    /\ clock = 0
    /\ onProgress = FALSE
    /\ pc = "start"
    /\ cur = 0
    /\ execution = Null
    /\ heap = <<>>
    /\ snapshots = <<>>
    /\ runLog = <<>>
    /\ NoCalls

\* What the handlers of the page other than handleGenerate leave alone.
outsideInput ==
    <<onProgress, pc, cur, heap, snapshots, runLog, generated, regenerated,
      pairVars, cliVars, workflowHistory, stored, loading, response, captured, clock>>

\* The page is loaded (again): the state is the initial one, and the
\* effect of lines 29-38 reads the history from localStorage.
Mount ==
    /\ ~loading
    /\ userInput' = <<>>
    /\ workflow' = Null
    /\ execution' = Null
    /\ workflowHistory' = MountedHistory(stored)
    /\ UNCHANGED <<onProgress, pc, cur, heap, snapshots, runLog, generated,
                   regenerated, pairVars, cliVars, stored, loading, response, captured, clock>>

\* onChange of the textarea, or handleExampleClick: the text is replaced.
SetUserInput(text) ==
    /\ ~loading
    /\ userInput' = text
    /\ UNCHANGED <<workflow, execution, outsideInput>>

\* loadFromHistory(workflowHistory[k]), offered while no workflow is shown.
LoadFromHistory(k) ==
    /\ ~loading
    /\ workflow = Null
    /\ k \in 1..Len(workflowHistory)
    /\ workflow' = workflowHistory[k]
    /\ userInput' = workflowHistory[k].metadata.userInput
    /\ execution' = Null
    /\ UNCHANGED outsideInput

\* handleClear, whose button is shown next to a workflow (line 226).
HandleClear ==
    /\ ~loading
    /\ workflow # Null
    /\ workflow' = Null
    /\ execution' = Null
    /\ userInput' = <<>>
    /\ UNCHANGED outsideInput

\* handleGenerate, lines 47-63: a blank text returns at line 50; otherwise
\* loading is set and the request is sent. The handler belongs to the
\* render it was created in: saveToHistory will read that render's history.
HandleGenerate ==
    /\ ~loading
    /\ Trim(userInput) # <<>>
    /\ Len(created) < MaxGenerates
    /\ loading' = TRUE
    /\ execution' = Null
    /\ captured' = workflowHistory
    /\ UNCHANGED <<userInput, workflow, onProgress, pc, cur, heap, snapshots,
                   runLog, generated, regenerated, pairVars, cliVars, workflowHistory,
                   stored, response, clock>>

\* POST /api/generate: the route calls createWorkflow(userInput), which
\* writes the files, and answers.
Serve(random) ==
    /\ loading
    /\ response = Undefined
    /\ \E now \in {clock, clock + 1} :
          \E out \in {createWorkflow(userInput, now, random, files)} :
              /\ clock' = now
              /\ files' = out.files
              /\ created' = Append(created, out.result)
              /\ response' = Some(ResponseOf(out.result))
    /\ UNCHANGED <<userInput, workflow, onProgress, pc, cur, execution, heap, snapshots,
                   runLog, generated, regenerated, pairVars, workflowHistory, stored,
                   loading, captured>>

\* handleGenerate, lines 65-90: the response is read, the workflow is
\* shown, and a workflow with steps is saved to the history.
Respond ==
    /\ response # Undefined
    /\ LET data == response[1]
       IN  /\ workflow' = data.workflow
           /\ IF Len(data.workflow.steps) > 0
              THEN LET updated == saveToHistory(captured, data.workflow)
                   IN  /\ workflowHistory' = updated
                       /\ stored' = Some(StringifyHistory(updated))
              ELSE UNCHANGED <<workflowHistory, stored>>
    /\ loading' = FALSE
    /\ response' = Undefined
    /\ UNCHANGED <<userInput, onProgress, pc, cur, execution, heap, snapshots, runLog,
                   generated, regenerated, pairVars, cliVars, captured, clock>>

NextPage ==
    \/ Mount
    \/ \E text \in PageInputs : SetUserInput(text)
    \/ \E k \in 1..3 : LoadFromHistory(k)
    \/ HandleClear
    \/ HandleGenerate
    \/ \E random \in CliSuffixes : Serve(random)
    \/ Respond

SpecPage == InitPage /\ [][NextPage]_vars

\* ------------------------------------------------------------------------
\* generateWorkflow as a state machine: a text is typed, then one call
\* ------------------------------------------------------------------------

InitGen ==
    /\ userInput \in InitialInputs
    /\ generated = Undefined
    /\ regenerated = Undefined
    /\ clock = 0
    /\ NoRun
    /\ NoCalls
    /\ NoFiles
    /\ NoPage

\* generateWorkflow(userInput): generateId draws the random suffix.
Generate(random) ==
    /\ generated = Undefined
    /\ generated' = Some(generateWorkflow(userInput, clock, random))
    /\ UNCHANGED <<userInput, regenerated, clock, outsideGen>>

\* A second call generateWorkflow(userInput) on the same text, at the same
\* or at a later reading of the clock.
Regenerate(random) ==
    /\ generated # Undefined
    /\ regenerated = Undefined
    /\ \E now \in {clock, clock + 1} :
          /\ clock' = now
          /\ regenerated' = Some(generateWorkflow(userInput, now, random))
    /\ UNCHANGED <<userInput, generated, outsideGen>>

EndsWithSpace(s) == IF s = <<>> THEN FALSE ELSE s[Len(s)] = " "

AtWordStart(s) == s = <<>> \/ EndsWithSpace(s)

\* The user types a word of Words at the start of the text or after a space
\* (setUserInput(e.target.value)), up to MaxWords words.
TypeWord(w) ==
    /\ generated = Undefined
    /\ WordCount(userInput) < MaxWords
    /\ AtWordStart(userInput)
    /\ userInput' = userInput \o w
    /\ UNCHANGED <<generated, regenerated, clock, outsideGen>>

\* The user types a space at the start of the text or after a word.
TypeSpace ==
    /\ generated = Undefined
    /\ ~EndsWithSpace(userInput)
    /\ userInput' = Append(userInput, " ")
    /\ UNCHANGED <<generated, regenerated, clock, outsideGen>>

NextGen ==
    \/ \E w \in Words : TypeWord(w)
    \/ TypeSpace
    \/ \E random \in RandomSuffixes : Generate(random)

SpecGen == InitGen /\ [][NextGen]_vars

\* The same machine with a second call on the text.
NextAgain ==
    \/ \E w \in Words : TypeWord(w)
    \/ TypeSpace
    \/ \E random \in RandomSuffixes : Generate(random)
    \/ \E random \in RandomSuffixes : Regenerate(random)

SpecAgain == InitGen /\ [][NextAgain]_vars

\* ------------------------------------------------------------------------
\* A generated workflow handed to executeWorkflow
\* ------------------------------------------------------------------------

\* Sentences for the App-Setup template (without and with a mention of
\* test, jest, vitest), for the General template (two and three verbs of
\* its vocabulary) and for the Notification template.
EmailSentence ==
    <<"s", "e", "n", "d", " ", "a", "n", " ", "e", "m", "a", "i", "l", " ", "t", "o", " ",
      "t", "h", "e", " ", "t", "e", "a", "m">>

SetupSentence ==
    <<"s", "e", "t", "u", "p", " ", "a", " ", "p", "r", "o", "j", "e", "c", "t">>

SetupTestSentence ==
    <<"s", "e", "t", "u", "p", " ", "a", " ", "p", "r", "o", "j", "e", "c", "t", " ", "a",
      "n", "d", " ", "t", "e", "s", "t", " ", "i", "t">>

SetupJestSentence ==
    <<"s", "e", "t", "u", "p", " ", "a", " ", "p", "r", "o", "j", "e", "c", "t", " ", "w",
      "i", "t", "h", " ", "j", "e", "s", "t">>

SetupVitestSentence ==
    <<"S", "e", "t", "u", "p", " ", "a", " ", "p", "r", "o", "j", "e", "c", "t", " ", "w",
      "i", "t", "h", " ", "V", "i", "t", "e", "s", "t">>

TwoVerbSentence ==
    <<"c", "h", "e", "c", "k", " ", "a", "n", "d", " ", "u", "p", "d", "a", "t", "e", " ",
      "d", "a", "t", "a">>

ThreeVerbSentence ==
    <<"l", "o", "a", "d", ",", " ", "v", "a", "l", "i", "d", "a", "t", "e", " ", "a", "n",
      "d", " ", "s", "a", "v", "e", " ", "d", "a", "t", "a">>

\* The texts whose workflows are run: the sentences above, the sentences
\* of the README, and a text that is too vague.
RunInputs ==
    { SetupSentence, SetupTestSentence, SetupJestSentence, SetupVitestSentence,
      TwoVerbSentence, ThreeVerbSentence, EmailSentence,
      ReminderScenario, SignupScenario, ReactScenario, <<"r", "e", "m", "i", "n", "d">> }

InitRun ==
    /\ userInput \in RunInputs
    /\ generated = Undefined
    /\ regenerated = Undefined
    /\ clock = 0
    /\ workflow = [id |-> "", steps |-> <<>>]
    /\ onProgress = FALSE
    /\ pc = "unloaded"
    /\ cur = 0
    /\ execution = NoExecution
    /\ heap = <<>>
    /\ snapshots = <<>>
    /\ runLog = <<>>
    /\ NoCalls
    /\ NoFiles
    /\ NoPage

\* The workflow generateWorkflow returned, unless it asks for a
\* clarification, reaches the caller of executeWorkflow as a JSON document
\* (the response of the route, a file of the CLI) and is handed to
\* executeWorkflow with a callback.
ExecuteGenerated ==
    /\ pc = "unloaded"
    /\ generated # Undefined
    /\ generated[1].clarificationNeeded # Some(TRUE)
    /\ workflow' = ParseWorkflow(StringifyWorkflow(generated[1].workflow))
    /\ onProgress' = TRUE
    /\ pc' = "start"
    /\ UNCHANGED <<cur, execution, heap, snapshots, runLog, clock, outsideExec>>

NextRun ==
    \/ \E random \in RandomSuffixes : Generate(random)
    \/ ExecuteGenerated
    \/ Begin
    \/ SkipStep
    \/ StartStep
    \/ \E success \in BOOLEAN : FinishStep(success)
    \/ Complete

SpecRun == InitRun /\ [][NextRun]_vars

\* ------------------------------------------------------------------------
\* The page with its Execute button: handleExecute and the runs it starts
\* ------------------------------------------------------------------------

\* The number of times Execute is clicked.
MaxRuns == 2

\* The number of times Generate is clicked on this page.
MaxRequests == 2

\* A text with one word of actionWords: a workflow of one step.
OneVerbSentence == <<"u", "p", "d", "a", "t", "e", " ", "d", "a", "t", "a">>

\* The text typed into the page.
ExecInputs == { OneVerbSentence }

\* The title typed into the first step's field in edit mode.
EditedTitle == <<"Edited">>

\* The button is disabled while the shown execution is running (line 230).
ExecuteDisabled == execution # Null /\ execution.status = "running"

\* Lines 77-85 of a run: the status is settled, the last snapshot is handed
\* to the page's callback, and the call returns.
Returning(self, h, now) ==
    LET e == [self.execution EXCEPT
                 !.status = IF @ = "running" THEN "completed" ELSE @,
                 !.endTime = Some(now)]
    IN  [self |-> [self EXCEPT !.execution = e, !.pc = "done"],
         heap |-> FinalSnapshot(e, h).heap,
         shown |-> FinalSnapshot(e, h).obj]

\* Lines 32-57 of a run, from its position in the loop to the next await
\* (or lines 77-85 when the loop ends): nothing else runs in between.
\* shown is what the page's callback was last handed.
RECURSIVE RunToAwait(_, _, _, _)
RunToAwait(self, h, shown, now) ==
    LET steps == self.workflow.steps
        a == self.execution.logs
    IN  IF self.cur > Len(steps)
        THEN Returning(self, h, now)
        ELSE LET step == steps[self.cur]
                 logIndex == FindIndex(h[a], step.id)
             IN  IF DependenciesNotMet(h[a], step)
                 THEN RunToAwait([self EXCEPT !.cur = @ + 1],
                                 [h EXCEPT ![a][logIndex].status = "failed",
                                           ![a][logIndex].error =
                                               Some(<<"Dependencies not met">>)],
                                 shown, now)
                 ELSE LET started == [h EXCEPT ![a][logIndex].status = "running",
                                               ![a][logIndex].startTime = Some(now)]
                          copy == StepSnapshot(self.execution, started)
                      IN  [self |-> [self EXCEPT !.pc = "delay"],
                           heap |-> copy.heap,
                           shown |-> copy.obj]

\* handleExecute, lines 93-105, up to the first await of executeWorkflow:
\* the record is created (lines 12-29) for the workflow shown at the click,
\* and every snapshot goes to setExecution.
HandleExecute ==
    /\ workflow # Null
    /\ ~ExecuteDisabled
    /\ Len(calls) < MaxRuns
    /\ LET a == NewAddress(heap)
           record == [workflowId |-> workflow.id,
                      executionId |-> Some(<<"exec-", ToString(clock)>>),
                      status |-> "running", logs |-> a,
                      startTime |-> Some(clock), endTime |-> Undefined]
           h == [x \in DOMAIN heap \cup {a} |->
                    IF x = a THEN InitialLogs(workflow.steps) ELSE heap[x]]
       IN  \E out \in {RunToAwait([workflow |-> workflow, pc |-> "loop", cur |-> 1,
                                   execution |-> record, outcomes |-> <<>>],
                                  h, InitialSnapshot(record, h).obj, clock)} :
              /\ calls' = Append(calls, out.self)
              /\ heap' = out.heap
              /\ execution' = out.shown
    /\ UNCHANGED <<userInput, workflow, onProgress, pc, cur, snapshots, runLog, generated,
                   regenerated, cliVars, pageVars, clock>>

\* The delay of run c is over: lines 57-74, then the loop up to the next
\* await or the return; every snapshot goes to setExecution, whatever the
\* page shows by now.
DelayElapsed(c, success) ==
    /\ c \in 1..Len(calls)
    /\ calls[c].pc = "delay"
    /\ clock' = clock + 1
    /\ LET self == calls[c]
           a == self.execution.logs
           step == self.workflow.steps[self.cur]
           logIndex == FindIndex(heap[a], step.id)
           result == simulateStepExecution(step.type, step.title, step.config, success)
           ended == [heap EXCEPT ![a][logIndex].status =
                                     IF result.success THEN "completed" ELSE "failed",
                                 ![a][logIndex].endTime = Some(clock'),
                                 ![a][logIndex].output = result.output,
                                 ![a][logIndex].error = result.error]
           copy == StepSnapshot(self.execution, ended)
           drawn == [self EXCEPT !.outcomes = Append(@, success)]
       IN  \E out \in {IF IsCritical(result.success, step.type)
                       THEN Returning([drawn EXCEPT !.execution.status = "failed"],
                                      copy.heap, clock')
                       ELSE RunToAwait([drawn EXCEPT !.pc = "loop", !.cur = @ + 1],
                                       copy.heap, copy.obj, clock')} :
              /\ calls' = [calls EXCEPT ![c] = out.self]
              /\ heap' = out.heap
              /\ execution' = out.shown
    /\ UNCHANGED <<userInput, workflow, onProgress, pc, cur, snapshots, runLog, generated,
                   regenerated, cliVars, pageVars>>

\* Save Changes in edit mode: handleSaveChanges of the visualizer hands the
\* shown workflow with the steps of its fields to handleUpdateWorkflow
\* (lines 130-133). The fields hold the shown steps, the first title edited
\* or not.
HandleUpdateWorkflow(edited) ==
    /\ workflow # Null
    /\ workflow' = IF edited /\ Len(workflow.steps) > 0
                   THEN [workflow EXCEPT !.steps[1].title = EditedTitle]
                   ELSE workflow
    /\ execution' = Null
    /\ UNCHANGED <<userInput, onProgress, pc, cur, heap, snapshots, runLog, generated,
                   regenerated, pairVars, cliVars, pageVars, clock>>

\* A click on Generate, at most MaxRequests times.
ClickGenerate ==
    /\ Len(created) < MaxRequests
    /\ HandleGenerate

NextExec ==
    \/ \E text \in ExecInputs : SetUserInput(text)
    \/ \E k \in 1..3 : LoadFromHistory(k)
    \/ HandleClear
    \/ ClickGenerate
    \/ \E random \in CliSuffixes : Serve(random)
    \/ Respond
    \/ HandleExecute
    \/ \E c \in 1..MaxRuns, success \in BOOLEAN : DelayElapsed(c, success)
    \/ \E edited \in BOOLEAN : HandleUpdateWorkflow(edited)

SpecExec == InitPage /\ [][NextExec]_vars

\* ------------------------------------------------------------------------
\* Properties of executeWorkflow
\* ------------------------------------------------------------------------

SimulatedError == Some(<<"Simulated execution error">>)

DependencyError == Some(<<"Dependencies not met">>)

Positions == 1..Len(Logs)

C2_SnapshotsAreIndependent ==
    [][\A k \in 1..Len(snapshots) : ViewOf(snapshots[k])' = ViewOf(snapshots[k])]_vars

\* Some declared dependency of the step has no 'completed' log.
SomeDependencyIncomplete(step) ==
    /\ step.dependencies # Undefined
    /\ \E k \in 1..Len(step.dependencies[1]) :
          ~\E i \in Positions :
              /\ Logs[i].stepId = step.dependencies[1][k]
              /\ Logs[i].status = "completed"

\* C3: a step reached with an incomplete dependency gets a 'failed' log with
\* error 'Dependencies not met' and no output, start or end time; such a log
\* never changes again (the step never runs); and a log that is 'running' or
\* 'completed' belongs to a step whose declared dependencies are all
\* 'completed'.
C3_DependencyGating ==
    [][/\ (pc = "loop" /\ cur <= NumSteps /\ SomeDependencyIncomplete(Steps[cur]))
          => /\ Logs'[cur].status = "failed"
             /\ Logs'[cur].error = DependencyError
             /\ Logs'[cur].output = Undefined
             /\ Logs'[cur].startTime = Undefined
             /\ Logs'[cur].endTime = Undefined
             /\ pc' # "delay"
       /\ \A i \in Positions :
             Logs[i].error = DependencyError => Logs'[i] = Logs[i]
       /\ \A i \in 1..Len(Logs') :
             Logs'[i].status \in {"running", "completed"}
                => /\ Steps[i].dependencies # Undefined
                      => \A k \in 1..Len(Steps[i].dependencies[1]) :
                            \E d \in 1..Len(Logs') :
                               /\ Logs'[d].stepId = Steps[i].dependencies[1][k]
                               /\ Logs'[d].status = "completed"
                   /\ Logs'[i].error # DependencyError]_vars

\* C3 witness: a returned record in which a step declaring a dependency on
\* an earlier step was reached after that step had failed, and was gated:
\* 'failed' with 'Dependencies not met', never started, no output.
C3_Witness ==
    /\ pc = "done"
    /\ \E i \in Positions, j \in Positions :
          /\ j < i
          /\ Steps[i].dependencies = Some(<<Steps[j].id>>)
          /\ Logs[j].status = "failed"
          /\ Logs[j].error = SimulatedError
          /\ Logs[i].status = "failed"
          /\ Logs[i].error = DependencyError
          /\ Logs[i].startTime = Undefined
          /\ Logs[i].output = Undefined

\* The log array has one entry per step, in step order, carrying its stepId.
ShapeOf(logs) ==
    /\ Len(logs) = NumSteps
    /\ \A i \in 1..NumSteps : logs[i].stepId = Steps[i].id

UniqueStepIds ==
    \A i \in 1..NumSteps, j \in 1..NumSteps : Steps[i].id = Steps[j].id => i = j

\* C6: for a workflow with pairwise distinct step ids, from the first
\* snapshot on the record and every snapshot handed to onProgress have
\* exactly one log per step, in step order, log i carrying step i's id.
C6_RecordShape ==
    (UniqueStepIds /\ pc # "start")
       => /\ ShapeOf(Logs)
          /\ \A k \in 1..Len(snapshots) : ShapeOf(LogsThrough(snapshots[k]))

\* C6 witness: a returned record of a two-step run with a failed step, all
\* snapshots delivered.
C6_Witness ==
    /\ pc = "done"
    /\ NumSteps >= 2
    /\ Len(snapshots) >= 4
    /\ \E i \in Positions : Logs[i].status = "failed"

\* Some non-condition step had a simulated failure.
SomeCriticalFailure ==
    \E i \in Positions :
        /\ Steps[i].type # "condition"
        /\ Logs[i].status = "failed"
        /\ Logs[i].error = SimulatedError

\* C7: the returned status is 'failed' exactly when a non-condition step had
\* a simulated failure, and 'completed' in every other run.
C7_FinalStatus ==
    pc = "done"
       => execution.status = (IF SomeCriticalFailure THEN "failed" ELSE "completed")

\* C7 witness: a run returned 'completed' although a condition step failed
\* by simulation and another step failed with 'Dependencies not met'.
C7_Witness ==
    /\ pc = "done"
    /\ execution.status = "completed"
    /\ \E i \in Positions :
          /\ Steps[i].type = "condition"
          /\ Logs[i].status = "failed"
          /\ Logs[i].error = SimulatedError
    /\ \E i \in Positions :
          /\ Steps[i].type # "condition"
          /\ Logs[i].status = "failed"
          /\ Logs[i].error = DependencyError

\* C14: no step of executeWorkflow changes the workflow document it was
\* given: its id, its steps and their order, and every field of every step.
C14_WorkflowUnchanged == [][workflow' = workflow]_vars

\* C14 witness: a returned record of a run that completed a step, gated
\* another one, and delivered snapshots.
C14_Witness ==
    /\ pc = "done"
    /\ onProgress
    /\ \E i \in Positions : Logs[i].status = "completed"
    /\ \E i \in Positions : Logs[i].error = DependencyError

\* The lines of the run log for position i.
RunningLine(i) == <<"Step ", ToString(i), ": ">> \o Steps[i].title \o <<" - RUNNING">>

CompletedLine(i) == <<"Step ", ToString(i), ": ">> \o Steps[i].title \o <<" - COMPLETED">>

FailedLine(i) == <<"Step ", ToString(i), ": ">> \o Steps[i].title \o <<" - FAILED">>

\* How many times the run log holds one of the lines.
Occurrences(lines) == Cardinality({k \in 1..Len(runLog) : runLog[k] \in lines})

\* C16: the run log holds each status change once: at most one RUNNING line
\* and at most one COMPLETED or FAILED line per step, and exactly one of each
\* for every step that ran, once the run has returned.
C16_EachChangeOnce ==
    \A i \in 1..NumSteps :
       /\ Occurrences({RunningLine(i)}) <= 1
       /\ Occurrences({CompletedLine(i), FailedLine(i)}) <= 1
       /\ (pc = "done" /\ onProgress /\ Logs[i].startTime # Undefined)
             => /\ Occurrences({RunningLine(i)}) = 1
                /\ Occurrences({CompletedLine(i), FailedLine(i)}) = 1

\* C20 (as claimed): a 'pending' log stays 'pending' or becomes 'running',
\* and a 'completed' or 'failed' log never changes.
C20_ThroughRunning ==
    [][\A i \in Positions :
          /\ Logs[i].status = "pending" => Logs'[i].status \in {"pending", "running"}
          /\ Logs[i].status \in {"completed", "failed"} => Logs'[i] = Logs[i]]_vars

\* C20 (amended): a 'pending' log stays 'pending', becomes 'running', or --
\* the dependency gate -- becomes 'failed' with 'Dependencies not met'
\* without start time; a 'running' log stays 'running' or becomes
\* 'completed' or 'failed'; a 'completed' or 'failed' log never changes.
C20_ThroughRunningOrGated ==
    [][/\ \A i \in 1..Len(Logs') : i \notin Positions => Logs'[i].status = "pending"
       /\ \A i \in Positions :
             /\ Logs[i].status = "pending"
                   => \/ Logs'[i].status \in {"pending", "running"}
                      \/ /\ Logs'[i].status = "failed"
                         /\ Logs'[i].error = DependencyError
                         /\ Logs'[i].startTime = Undefined
             /\ Logs[i].status = "running"
                   => Logs'[i].status \in {"running", "completed", "failed"}
             /\ Logs[i].status \in {"completed", "failed"} => Logs'[i] = Logs[i]]_vars

\* C20 witness: a returned record with a log that went through 'running' to
\* 'completed' and a log the dependency gate failed.
C20_Witness ==
    /\ pc = "done"
    /\ \E i \in Positions : Logs[i].status = "completed" /\ Logs[i].startTime # Undefined
    /\ \E i \in Positions : Logs[i].error = DependencyError /\ Logs[i].startTime = Undefined

\* ------------------------------------------------------------------------
\* Properties of two executeWorkflow calls
\* ------------------------------------------------------------------------

BothDone == \A c \in CallIds : calls[c].pc = "done"

\* The two documents are identical except for the type fields of their
\* steps (the id of the document and the config that goes with a type aside).
SameExceptTypes ==
    LET a == calls[1].workflow.steps
        b == calls[2].workflow.steps
    IN  /\ Len(a) = Len(b)
        /\ \A i \in 1..Len(a) :
              /\ a[i].id = b[i].id
              /\ a[i].title = b[i].title
              /\ a[i].dependencies = b[i].dependencies

\* Corresponding steps agree on being a 'condition' step or not.
SameConditionSteps ==
    \A i \in 1..Len(calls[1].workflow.steps) :
        (calls[1].workflow.steps[i].type = "condition")
           <=> (calls[2].workflow.steps[i].type = "condition")

\* What C12 compares: the statuses of the logs, the steps that ran, and the
\* overall status.
ControlFlowOf(c) ==
    [statuses |-> [i \in 1..Len(CallLogs(c)) |-> CallLogs(c)[i].status],
     ran |-> {i \in 1..Len(CallLogs(c)) : CallLogs(c)[i].startTime # Undefined},
     status |-> calls[c].execution.status]

\* C12 (as claimed): two runs on documents that differ only in step types,
\* with the same draws, end with the same log statuses, the same steps run
\* and the same overall status.
C12_TypeNeverAffectsControl ==
    (BothDone /\ SameExceptTypes /\ calls[1].outcomes = calls[2].outcomes)
       => ControlFlowOf(1) = ControlFlowOf(2)

\* C12 (amended): the same, for documents whose corresponding steps agree
\* on being 'condition' steps or not.
C12_TypeAffectsOnlyHaltRule ==
    (/\ BothDone
     /\ SameExceptTypes
     /\ SameConditionSteps
     /\ calls[1].outcomes = calls[2].outcomes)
       => ControlFlowOf(1) = ControlFlowOf(2)

\* C12 witness: two returned runs on documents that differ in a step type
\* but not in which steps are conditions, with the same draws, a failure
\* among them, and different output text.
C12_Witness ==
    /\ BothDone
    /\ SameExceptTypes
    /\ SameConditionSteps
    /\ calls[1].workflow # calls[2].workflow
    /\ calls[1].outcomes = calls[2].outcomes
    /\ \E k \in 1..Len(calls[1].outcomes) : ~calls[1].outcomes[k]
    /\ \E i \in 1..Len(CallLogs(1)) :
          /\ CallLogs(1)[i].status = "completed"
          /\ CallLogs(1)[i].output # CallLogs(2)[i].output
    /\ ControlFlowOf(1) = ControlFlowOf(2)

\* What a caller reads through the record of call c.
CallView(c) == [record |-> calls[c].execution, logs |-> CallLogs(c)]

\* A log without its clock readings: whether it has a start and an end time.
Untimed(log) ==
    [log EXCEPT !.startTime = IF log.startTime = Undefined THEN Undefined ELSE Some(0),
                !.endTime = IF log.endTime = Undefined THEN Undefined ELSE Some(0)]

UntimedLogs(logs) == [i \in 1..Len(logs) |-> Untimed(logs[i])]

\* The record call c returned is, clock readings aside, the one the same
\* call returns run alone with the same draws.
ReturnsAsAlone(c) ==
    calls[c].pc = "done"
       => LET alone == RunAlone(calls[c].workflow, calls[c].outcomes)
          IN  /\ calls[c].execution.status = alone.status
              /\ calls[c].execution.workflowId = calls[c].workflow.id
              /\ UntimedLogs(CallLogs(c)) = UntimedLogs(alone.logs)

\* C13: in every interleaving of two calls, a step changes the record, the
\* logs array and the position of one call only, and each call returns the
\* record it returns run alone with the same draws (clock readings aside).
C13_NoInterference ==
    /\ [][\A c \in CallIds, d \in CallIds :
             (c # d /\ (CallView(c)' # CallView(c) \/ calls'[c] # calls[c]))
                => (CallView(d)' = CallView(d) /\ calls'[d] = calls[d])]_vars
    /\ [](\A c \in CallIds : ReturnsAsAlone(c))

\* C13 witness: two returned runs that overlapped (each started its first
\* step before the other's first delay was over) with different draws.
C13_Witness ==
    /\ BothDone
    /\ calls[1].outcomes # calls[2].outcomes
    /\ Len(calls[1].outcomes) >= 2
    /\ \A c \in CallIds : CallLogs(c)[1].startTime = Some(0)
    /\ \E i \in 1..Len(CallLogs(1)) : CallLogs(1)[i].status = "completed"
    /\ \E i \in 1..Len(CallLogs(2)) : CallLogs(2)[i].status = "failed"

\* ------------------------------------------------------------------------
\* Properties of the CLI
\* ------------------------------------------------------------------------

\* The createWorkflow calls that did not end in clarification.
Successes == {k \in 1..Len(created) : created[k].success}

\* The workflow of the most recent of them.
LastCreated ==
    created[CHOOSE k \in Successes : \A j \in Successes : j <= k].data[1]

\* What the directory must hold after the calls made so far.
PersistedAsClaimed ==
    IF Successes = {}
    THEN DOMAIN files = {}
    ELSE /\ DOMAIN files = {LAST_WORKFLOW_FILE}
                              \cup {WorkflowPath(created[k].data[1].id) : k \in Successes}
         /\ files[LAST_WORKFLOW_FILE] = StringifyWorkflow(LastCreated)
         /\ files[WorkflowPath(LastCreated.id)] = StringifyWorkflow(LastCreated)
         /\ ParseWorkflow(files[LAST_WORKFLOW_FILE]) = LastCreated

Returned == generated[1].workflow

NeedsClarification == generated[1].clarificationNeeded = Some(TRUE)

StepTitles == [i \in 1..Len(Returned.steps) |-> Returned.steps[i].title]

StepKinds == [i \in 1..Len(Returned.steps) |-> Returned.steps[i].type]

\* text contains word, as a run of consecutive code units.
Contains(text, word) ==
    \E i \in 1..Len(text) : i + Len(word) - 1 <= Len(text)
                               /\ SubSeq(text, i, i + Len(word) - 1) = word

\* C4: "Set up a new React project with TypeScript and testing" gives domain
\* 'app-setup', framework React, a package list with 'typescript' and the 4
\* steps initialize, install, configure-testing, start-dev-server.
C4_ReactScenario ==
    (generated # Undefined /\ userInput = ReactScenario)
       => /\ Returned.domain = "app-setup"
          /\ StepTitles = << <<"Initialize Project">>, <<"Install Dependencies">>,
                             <<"Configure Testing">>, <<"Start Development Server">> >>
          /\ Returned.steps[1].config.framework = <<"React">>
          /\ \E k \in 1..Len(Returned.steps[2].config.packages) :
                Returned.steps[2].config.packages[k] = "typescript"

\* C5: "Send an email notification when a new user signs up" gives domain
\* 'automation', an 'event' trigger with event 'user.signup', and the 4-step
\* Notification template with channel 'email' and priority 'normal'.
C5_SignupScenario ==
    (generated # Undefined /\ userInput = SignupScenario)
       => /\ Returned.domain = "automation"
          /\ Returned.trigger.type = "event"
          /\ Returned.trigger.config = Some([event |-> <<"user.signup">>])
          /\ StepTitles = << <<"Validate Recipient Info">>, <<"Prepare Message">>,
                             <<"Send Notification">>, <<"Confirm Delivery">> >>
          /\ Returned.steps[3].config.channel = <<"email">>
          /\ Returned.steps[3].config.priority = <<"normal">>

\* The lower-cased input holds a keyword of each family.
HasReminderWord ==
    \E w \in {<<"r", "e", "m", "i", "n", "d">>, <<"n", "o", "t", "i", "f", "i", "c", "a", "t", "i", "o", "n">>, <<"a", "l", "e", "r", "t">>} : Contains(ToLowerCase(userInput), w)

HasSetupWord ==
    \E w \in {<<"s", "e", "t", "u", "p">>, <<"c", "r", "e", "a", "t", "e", " ", "p", "r", "o", "j", "e", "c", "t">>, <<"i", "n", "i", "t", "i", "a", "l", "i", "z", "e">>} : Contains(ToLowerCase(userInput), w)

HasSendWord ==
    \E w \in {<<"e", "m", "a", "i", "l">>, <<"s", "e", "n", "d">>, <<"n", "o", "t", "i", "f", "y">>} : Contains(ToLowerCase(userInput), w)

IsClarification ==
    /\ generated[1].clarificationNeeded = Some(TRUE)
    /\ generated[1].clarificationQuestion = Some(ClarificationQuestion)
    /\ Returned.steps = <<>>
    /\ Returned.domain = "general"
    /\ Returned.trigger.type = "manual"
    /\ Returned.metadata.userInput = userInput

\* C9 (as claimed): an input shorter than 10 characters or without a space
\* gets the clarification result, whatever keywords it holds.
C9_VagueRawInput ==
    (generated # Undefined /\ (Len(userInput) < 10 \/ ~Contains(userInput, <<" ">>)))
       => IsClarification

\* C9 (amended): an input whose lower-cased, trimmed form is shorter than 10
\* characters or has no space gets the clarification result, whatever
\* keywords it holds.
C9_VagueNormalizedInput ==
    LET lowered == Trim(ToLowerCase(userInput))
    IN  (generated # Undefined /\ (Len(lowered) < 10 \/ ~Contains(lowered, <<" ">>)))
           => IsClarification

\* C9 witness: a clarification result for an input that holds the keyword
\* "remind" and a space, and is too short.
C9_Witness ==
    /\ generated # Undefined
    /\ Contains(userInput, <<"r", "e", "m", "i", "n", "d">>)
    /\ Contains(Trim(userInput), <<" ">>)
    /\ IsClarification

\* The result of the Reminder template: 3 steps (condition, notification,
\* action) chained by their dependencies, each with a reasoning.
IsReminderChain ==
    /\ generated[1].clarificationNeeded = Undefined
    /\ Returned.domain = "reminders"
    /\ StepKinds = <<"condition", "notification", "action">>
    /\ Returned.steps[1].dependencies \in {Undefined, Some(<<>>)}
    /\ Returned.steps[2].dependencies = Some(<<Returned.steps[1].id>>)
    /\ Returned.steps[3].dependencies = Some(<<Returned.steps[2].id>>)
    /\ \A i \in 1..3 : /\ Returned.steps[i].reasoning # <<>>
                       /\ Returned.steps[i].reasoning # <<"">>

\* C10 (as claimed): an input that holds "remind", is at least 10 characters
\* long and has a space gets the Reminder chain.
C10_RemindRawInput ==
    (/\ generated # Undefined
     /\ Contains(userInput, <<"r", "e", "m", "i", "n", "d">>)
     /\ Len(userInput) >= 10
     /\ Contains(userInput, <<" ">>))
       => IsReminderChain

\* C10 (amended): an input whose lower-cased, trimmed form holds "remind",
\* is at least 10 characters long and has a space gets the Reminder chain.
C10_RemindNormalizedInput ==
    LET lowered == Trim(ToLowerCase(userInput))
    IN  (/\ generated # Undefined
         /\ Contains(lowered, <<"r", "e", "m", "i", "n", "d">>)
         /\ Len(lowered) >= 10
         /\ Contains(lowered, <<" ">>))
           => IsReminderChain

\* C10 witness: the Reminder chain for an input with "remind" that also
\* holds words of the other families.
C10_Witness ==
    /\ generated # Undefined
    /\ Contains(userInput, <<"r", "e", "m", "i", "n", "d">>)
    /\ HasSetupWord
    /\ IsReminderChain

\* C11: the returned workflow has zero steps if clarification is needed and
\* at least one step otherwise, whichever template produced it.
C11_StepCount ==
    generated # Undefined
       => IF NeedsClarification
          THEN Len(Returned.steps) = 0
          ELSE Len(Returned.steps) >= 1

\* C11 witness: a result of the General template for an input without any
\* vocabulary verb, with one step, and no clarification.
C11_Witness ==
    /\ generated # Undefined
    /\ ~NeedsClarification
    /\ Returned.domain = "general"
    /\ \A k \in 1..Len(actionWords) : ~Contains(ToLowerCase(userInput), actionWords[k])
    /\ Len(Returned.steps) = 1

\* The second call's result.
ReturnedAgain == regenerated[1].workflow

\* What C15 calls the step structure: each step's id, type, title, config
\* and dependencies, in order.
StructureOf(w) ==
    [i \in 1..Len(w.steps) |->
        [id |-> w.steps[i].id, type |-> w.steps[i].type, title |-> w.steps[i].title,
         config |-> w.steps[i].config, dependencies |-> w.steps[i].dependencies]]

\* C15: two calls on the same text return the same clarification flag,
\* domain, trigger type and step structure.
C15_Determinism ==
    (generated # Undefined /\ regenerated # Undefined)
       => /\ regenerated[1].clarificationNeeded = generated[1].clarificationNeeded
          /\ ReturnedAgain.domain = Returned.domain
          /\ ReturnedAgain.trigger.type = Returned.trigger.type
          /\ StructureOf(ReturnedAgain) = StructureOf(Returned)

\* C15 witness: two results of the General template for the same text, with
\* different workflow ids and different createdAt, and at least one step.
C15_Witness ==
    /\ generated # Undefined
    /\ regenerated # Undefined
    /\ Returned.domain = "general"
    /\ Len(Returned.steps) >= 1
    /\ ReturnedAgain.id # Returned.id
    /\ ReturnedAgain.metadata.createdAt # Returned.metadata.createdAt

\* The lower-cased input holds one of the 12 vocabulary verbs.
HasVocabularyVerb ==
    \E k \in 1..Len(actionWords) : Contains(ToLowerCase(userInput), actionWords[k])

\* C19: an input that is not too vague, holds no domain keyword and none of
\* the 12 vocabulary verbs gets the single fallback step 'Execute Workflow'
\* whose description is the raw input, with empty config and no dependencies.
C19_FallbackStep ==
    (/\ generated # Undefined
     /\ ~TooVague(Normalize(userInput))
     /\ ~HasReminderWord /\ ~HasSetupWord /\ ~HasSendWord
     /\ ~HasVocabularyVerb)
       => /\ Len(Returned.steps) = 1
          /\ Returned.steps[1].title = <<"Execute Workflow">>
          /\ Returned.steps[1].description = userInput
          /\ Returned.steps[1].config = <<>>
          /\ Returned.steps[1].dependencies \in {Undefined, Some(<<>>)}

\* ------------------------------------------------------------------------
\* The workflow history of the page
\* ------------------------------------------------------------------------

\* The workflows the generate operations returned with at least one step,
\* oldest first.
GeneratedWithSteps ==
    LET RECURSIVE from(_)
        from(k) ==
            IF k > Len(created) THEN <<>>
            ELSE (IF created[k].success /\ Len(created[k].data[1].steps) > 0
                  THEN <<created[k].data[1]>> ELSE <<>>) \o from(k + 1)
    IN  from(1)

\* The workflows of a list, newest first, each id once (its newest).
NewestDistinct(ws) ==
    LET RECURSIVE back(_, _)
        back(k, seen) ==
            IF k = 0 THEN <<>>
            ELSE IF ws[k].id \in seen THEN back(k - 1, seen)
            ELSE <<ws[k]>> \o back(k - 1, seen \cup {ws[k].id})
    IN  back(Len(ws), {})

\* The history in localStorage, as the page would read it.
StoredHistory == MountedHistory(stored)

HistoryAsClaimed ==
    (response = Undefined) =>
        LET expected == NewestDistinct(GeneratedWithSteps)
        IN  /\ Len(StoredHistory) <= 3
            /\ \A i, j \in 1..Len(StoredHistory) :
                  i # j => StoredHistory[i].id # StoredHistory[j].id
            /\ \A i, j \in 1..Len(StoredHistory) :
                  i < j => StoredHistory[i].metadata.createdAt
                             >= StoredHistory[j].metadata.createdAt
            /\ Len(StoredHistory) = (IF Len(expected) < 3 THEN Len(expected) ELSE 3)
            /\ \A i \in 1..Len(StoredHistory) : StoredHistory[i] = expected[i]
            /\ workflowHistory = StoredHistory

\* C18: after any sequence of generate operations of the page, the stored
\* history holds at most 3 workflows with pairwise distinct ids, most
\* recently generated first, and it is the last 3 distinct workflows that
\* were generated with at least one step; a generate that returns a
\* workflow without steps (a clarification) leaves the history unchanged.
C18_History ==
    /\ []HistoryAsClaimed
    /\ [][(/\ response # Undefined
           /\ response' = Undefined
           /\ Len(response[1].workflow.steps) = 0)
              => UNCHANGED <<workflowHistory, stored>>]_vars

\* Four workflows with four different ids were generated, so that the
\* oldest left the history: the three newest are stored, newest first.
C18_Witness ==
    /\ response = Undefined
    /\ ~loading
    /\ Len(NewestDistinct(GeneratedWithSteps)) = 4
    /\ Len(StoredHistory) = 3
    /\ StoredHistory[1] = created[4].data[1]

\* ------------------------------------------------------------------------
\* Further properties of executeWorkflow
\* ------------------------------------------------------------------------

\* The log at position i is 'failed' with 'Dependencies not met'.
Gated(i) == Logs[i].status = "failed" /\ Logs[i].error = DependencyError

\* C21: when the step the loop is at, whatever its type, has an incomplete
\* dependency, the step that marks its log 'failed' leaves the overall
\* status 'running' and moves the loop to the next position; the step
\* taken at that next position moves its log away from 'pending'; and in
\* the returned record the log after a gated log is never 'pending'.
C21_GatingIsNotFatal ==
    /\ [][(pc = "loop" /\ cur <= NumSteps /\ SomeDependencyIncomplete(Steps[cur]))
             => /\ Logs'[cur].status = "failed"
                /\ Logs'[cur].error = DependencyError
                /\ execution.status = "running"
                /\ execution' = execution
                /\ pc' = "loop"
                /\ cur' = cur + 1]_vars
    /\ [][(/\ pc = "loop"
           /\ 1 < cur
           /\ cur <= NumSteps
           /\ Gated(cur - 1)
           /\ Logs[cur].status = "pending")
             => Logs'[cur].status # "pending"]_vars
    /\ [](pc = "done"
            => \A i \in Positions :
                  (Gated(i) /\ i < Len(Logs)) => Logs[i + 1].status # "pending")

\* C21 witness: a returned record with status 'completed' in which a
\* non-condition step was gated and the step after it ran and completed.
C21_Witness ==
    /\ pc = "done"
    /\ execution.status = "completed"
    /\ \E i \in Positions :
          /\ i < Len(Logs)
          /\ Steps[i].type # "condition"
          /\ Gated(i)
          /\ Logs[i + 1].status = "completed"

Terminal(status) == status \in {"completed", "failed"}

\* In a logs array at most one entry is 'running', and an entry is
\* non-pending only if every entry before it is terminal.
OneAtATime(logs) ==
    /\ \A i, j \in 1..Len(logs) :
          (logs[i].status = "running" /\ logs[j].status = "running") => i = j
    /\ \A i, j \in 1..Len(logs) :
          (j < i /\ logs[i].status # "pending") => Terminal(logs[j].status)

\* C22: in every state of a run (step ids being unique) at most one log is
\* 'running' and a log is non-pending only if every log before it is
\* terminal, in the record and in every snapshot; the steps are taken in
\* array order: the position of the loop never decreases, and a log that
\* changes is the log at the position of the loop.
C22_Sequential ==
    /\ [](/\ OneAtATime(Logs)
          /\ \A k \in 1..Len(snapshots) : OneAtATime(LogsThrough(snapshots[k])))
    /\ [][/\ cur' >= cur
          /\ pc # "start"
               => \A i \in Positions : Logs'[i] # Logs[i] => i = cur]_vars

\* C22 witness: the second step of a run is 'running' after the first
\* step ended, and both were delivered to onProgress.
C22_Witness ==
    /\ pc = "delay"
    /\ cur = 2
    /\ Logs[2].status = "running"
    /\ Terminal(Logs[1].status)
    /\ Len(snapshots) >= 3

\* C27 (as claimed): in a record returned with status 'completed' every log
\* is 'completed'.
C27_CompletedMeansAllCompleted ==
    (pc = "done" /\ execution.status = "completed")
       => \A i \in Positions : Logs[i].status = "completed"

\* C27 (amended): in a record returned with status 'completed' every step
\* was processed: no log is 'pending' or 'running', and a log that is
\* 'failed' is the log of a 'condition' step that failed by simulation or
\* of a step that failed the dependency check.
C27_CompletedMeansNotHalted ==
    (pc = "done" /\ execution.status = "completed")
       => \A i \in Positions :
             \/ Logs[i].status = "completed"
             \/ /\ Logs[i].status = "failed"
                /\ \/ Steps[i].type = "condition" /\ Logs[i].error = SimulatedError
                   \/ Logs[i].error = DependencyError /\ Steps[i].dependencies # Undefined

\* C27 witness: a record returned 'completed' whose first log is 'failed'
\* and whose second log is 'completed'.
C27_Witness ==
    /\ pc = "done"
    /\ execution.status = "completed"
    /\ Len(Logs) = 2
    /\ Logs[1].status = "failed"
    /\ Logs[2].status = "completed"

\* The step at position i lists its own id, the id of a later step, or an
\* id that no step has.
Unsatisfiable(i) ==
    /\ Steps[i].dependencies # Undefined
    /\ \E k \in 1..Len(Steps[i].dependencies[1]) :
          LET depId == Steps[i].dependencies[1][k]
          IN  \/ \E j \in i..NumSteps : Steps[j].id = depId
              \/ \A j \in 1..NumSteps : Steps[j].id # depId

\* The step at position i declares no dependency.
WithoutDependencies(i) == Steps[i].dependencies \in {Undefined, Some(<<>>)}

\* C30 (as claimed): in the returned record the log of a step with an
\* unsatisfiable dependency is 'failed' with 'Dependencies not met', and
\* the log of a step without dependencies never carries that error.
C30_UnsatisfiableAlwaysFails ==
    /\ pc = "done" => \A i \in Positions : Unsatisfiable(i) => Gated(i)
    /\ \A i \in Positions : WithoutDependencies(i) => Logs[i].error # DependencyError

\* C30 (amended): a step with an unsatisfiable dependency never runs (its
\* log is never 'running' or 'completed'); in the returned record its log
\* is 'failed' with 'Dependencies not met', unless the run was halted
\* before the loop reached it, and then its log is 'pending' and the
\* overall status is 'failed'. The log of a step without dependencies never
\* carries that error.
C30_UnsatisfiableNeverRuns ==
    /\ \A i \in Positions :
          Unsatisfiable(i) => Logs[i].status \notin {"running", "completed"}
    /\ pc = "done"
          => \A i \in Positions :
                Unsatisfiable(i)
                   => \/ Gated(i)
                      \/ /\ Logs[i].status = "pending"
                         /\ execution.status = "failed"
                         /\ \E j \in 1..(i - 1) :
                               /\ Steps[j].type # "condition"
                               /\ Logs[j].status = "failed"
                               /\ Logs[j].error = SimulatedError
    /\ \A i \in Positions : WithoutDependencies(i) => Logs[i].error # DependencyError

\* C30 witness: in a returned record the first step, which depends on the
\* step after it, is gated, and that later step, whose dependencies list is
\* empty, has completed.
C30_Witness ==
    /\ pc = "done"
    /\ Len(Logs) = 2
    /\ Steps[1].dependencies = Some(<<Steps[2].id>>)
    /\ Steps[2].dependencies = Some(<<>>)
    /\ Gated(1)
    /\ Logs[2].status = "completed"

\* The number of steps that passed the dependency check so far.
Started ==
    Cardinality({i \in Positions : Logs[i].startTime # Undefined})

\* The snapshot handed to the call of onProgress made last.
LastSnapshot == snapshots[Len(snapshots)]

\* C28: with a callback, the first call of onProgress hands over status
\* 'running' and logs that are all 'pending'; a step that passes the
\* dependency check gives one call showing its log 'running' and then one
\* showing it terminal, a gated step gives none; until the run returns
\* every snapshot has status 'running'; the returned run has made one more
\* call, the only one with a terminal status, and what it shows is the
\* returned record.
C28_SnapshotOrder ==
    /\ [][onProgress
            => /\ pc = "start"
                    => /\ Len(snapshots') = 1
                       /\ LastSnapshot'.status = "running"
                       /\ \A i \in 1..Len(Logs') :
                             LogsThrough(LastSnapshot)'[i].status = "pending"
               /\ (pc = "loop" /\ pc' = "delay")
                    => /\ Len(snapshots') = Len(snapshots) + 1
                       /\ LogsThrough(LastSnapshot)'[cur].status = "running"
               /\ pc = "delay"
                    => /\ Len(snapshots') = Len(snapshots) + 1
                       /\ Terminal(LogsThrough(LastSnapshot)'[cur].status)
               /\ (pc = "loop" /\ pc' = "loop")
                    => snapshots' = snapshots
               /\ pc' = "done"
                    => /\ Len(snapshots') = Len(snapshots) + 1
                       /\ ViewOf(LastSnapshot)' = ViewOf(execution)']_vars
    /\ [](onProgress
            => /\ \A k \in 1..(Len(snapshots) - 1) : snapshots[k].status = "running"
               /\ pc \notin {"start", "done"} => LastSnapshot.status = "running"
               /\ pc = "done"
                    => /\ Terminal(LastSnapshot.status)
                       /\ Len(snapshots) = 2 + 2 * Started)

\* C28 witness: a returned two-step run in which one step was gated and
\* the other ran: four calls of onProgress, the last one terminal.
C28_Witness ==
    /\ pc = "done"
    /\ onProgress
    /\ Len(Logs) = 2
    /\ Started = 1
    /\ \E i \in Positions : Gated(i)
    /\ Len(snapshots) = 4
    /\ Terminal(LastSnapshot.status)

\* The call has returned a record with a terminal status and an end time,
\* none of whose logs is 'running'.
ReturnedTerminal ==
    /\ pc = "done"
    /\ Terminal(execution.status)
    /\ execution.endTime # Undefined
    /\ \A i \in Positions : Logs[i].status # "running"

\* C23: if every delay timer fires, the run returns, and the returned
\* record has status 'completed' or 'failed', an end time, and no log that
\* is 'running'; once the record exists its status changes only from
\* 'running' to 'completed' or 'failed', and never afterwards.
C23_Termination ==
    /\ <>(pc = "done")
    /\ [](pc = "done" => ReturnedTerminal)
    /\ [][pc # "start"
            => \/ execution'.status = execution.status
               \/ execution.status = "running" /\ Terminal(execution'.status)]_vars

\* C23 witness: a run that was halted has returned: status 'failed', end
\* time set, the step after the failed one still 'pending', none 'running'.
C23_Witness ==
    /\ ReturnedTerminal
    /\ execution.status = "failed"
    /\ Len(Logs) = 2
    /\ Logs[1].status = "failed"
    /\ Logs[2].status = "pending"

\* ------------------------------------------------------------------------
\* Execution ids
\* ------------------------------------------------------------------------

\* C24: two executeWorkflow calls that have both created their record,
\* at the same clock reading or not, have different executionId values.
C24_FreshExecutionId ==
    (calls # <<>> /\ \A c \in CallIds : calls[c].pc # "start")
       => calls[1].execution.executionId # calls[2].execution.executionId

\* ------------------------------------------------------------------------
\* Properties of generated workflows that are run
\* ------------------------------------------------------------------------

\* The ids of the steps are pairwise distinct, and every id a step lists
\* as a dependency is the id of a step strictly before it.
ValidOrder(steps) ==
    /\ \A i, j \in 1..Len(steps) : steps[i].id = steps[j].id => i = j
    /\ \A i \in 1..Len(steps) :
          steps[i].dependencies # Undefined
             => \A k \in 1..Len(steps[i].dependencies[1]) :
                   \E j \in 1..(i - 1) : steps[j].id = steps[i].dependencies[1][k]

\* No step of the run failed by simulation.
EveryOutcomeSuccess ==
    \A i \in Positions : Logs[i].error # SimulatedError

\* C25: the steps of every workflow generateWorkflow returns are in valid
\* dependency order, also after the JSON round trip to the caller of
\* executeWorkflow; and a returned run of it in which no step failed by
\* simulation has status 'completed' and every log 'completed'.
C25_ValidDependencyOrder ==
    /\ generated # Undefined => ValidOrder(Returned.steps)
    /\ pc # "unloaded" => (ValidOrder(Steps) /\ Steps = Returned.steps)
    /\ (pc = "done" /\ EveryOutcomeSuccess)
          => /\ execution.status = "completed"
             /\ Len(Logs) = Len(Returned.steps)
             /\ \A i \in Positions : Logs[i].status = "completed"

\* C25 witness: the three-step workflow of the General template, each
\* step depending on the one before, was run and every step completed.
C25_Witness ==
    /\ pc = "done"
    /\ Returned.domain = "general"
    /\ Len(Steps) = 3
    /\ Steps[3].dependencies = Some(<<Steps[2].id>>)
    /\ Steps[2].dependencies = Some(<<Steps[1].id>>)
    /\ \A i \in Positions : Logs[i].status = "completed"

\* The lower-cased input mentions test, jest or vitest.
InputMentionsTesting ==
    \/ Contains(ToLowerCase(userInput), <<"t", "e", "s", "t">>)
    \/ Contains(ToLowerCase(userInput), <<"j", "e", "s", "t">>)
    \/ Contains(ToLowerCase(userInput), <<"v", "i", "t", "e", "s", "t">>)

\* The workflow is the App-Setup template's.
IsAppSetupResult == generated # Undefined /\ Returned.domain = "app-setup"

\* The position of the step with the given title, 0 if there is none.
PositionOf(title) ==
    IF \E i \in 1..Len(Returned.steps) : Returned.steps[i].title = <<title>>
    THEN CHOOSE i \in 1..Len(Returned.steps) : Returned.steps[i].title = <<title>>
    ELSE 0

\* C26: an App-Setup workflow has 4 steps when the input mentions test,
\* jest or vitest and 3 otherwise: initialize, install, configure testing
\* (when present), start the dev server, the last two each depending on
\* the install step exactly; in a returned run in which only the
\* configure-testing step failed by simulation the status is 'failed' and
\* the dev-server step is 'pending' although the install step completed.
C26_AppSetup ==
    IsAppSetupResult
       => LET steps == Returned.steps
              install == PositionOf("Install Dependencies")
              testing == PositionOf("Configure Testing")
              server == PositionOf("Start Development Server")
          IN  /\ Len(steps) = (IF InputMentionsTesting THEN 4 ELSE 3)
              /\ PositionOf("Initialize Project") = 1
              /\ install = 2
              /\ testing = (IF InputMentionsTesting THEN 3 ELSE 0)
              /\ server = Len(steps)
              /\ steps[server].dependencies = Some(<<steps[install].id>>)
              /\ testing # 0 => steps[testing].dependencies = Some(<<steps[install].id>>)
              /\ \A i \in 1..Len(steps) : steps[i].type = "action"
              /\ (/\ pc = "done"
                  /\ testing # 0
                  /\ Logs[testing].error = SimulatedError
                  /\ \A i \in Positions : i # testing => Logs[i].error # SimulatedError)
                    => /\ execution.status = "failed"
                       /\ Logs[install].status = "completed"
                       /\ Logs[server].status = "pending"

\* C26 witness: the run of a four-step App-Setup workflow has returned
\* after the configure-testing step failed by simulation.
C26_Witness ==
    /\ IsAppSetupResult
    /\ pc = "done"
    /\ Len(Steps) = 4
    /\ Logs[2].status = "completed"
    /\ Logs[3].error = SimulatedError
    /\ Logs[4].status = "pending"

\* ------------------------------------------------------------------------
\* C29: one run at a time on the page, shown beside its own workflow
\* ------------------------------------------------------------------------

\* The runs the page has started that have not returned.
RunsInProgress == {c \in 1..Len(calls) : calls[c].pc # "done"}

\* C29 (as stated): while an execution started from the page has not
\* returned, no second one is started, and an execution shown next to a
\* workflow carries that workflow's id.
C29_OneRunOfTheShownWorkflow ==
    /\ Cardinality(RunsInProgress) <= 1
    /\ (workflow # Null /\ execution # Null) => execution.workflowId = workflow.id

====
